---- MODULE Spec2Model ----
(***************************************************************************)
(* Position-estimation engine of dataFusion: the rasterized floor plan     *)
(* (FloorPlanPDF), the non-recursive Bayesian filter                       *)
(* (BayesianNavigationFilter) and the particle filter (ParticleFilter).    *)
(*                                                                         *)
(* Units.  Lengths are integers in millimetres (3.5 m = 3500).             *)
(* Probabilities of the floor plan are integers in hundredths (1.0 = 100,  *)
(* 0.01 = 1).  Log-probabilities are integers in thousandths of a nat.     *)
(* Headings are the strings of Headings; "nan" is a NaN heading.           *)
(***************************************************************************)
EXTENDS Integers, Sequences, FiniteSets, TLC

VARIABLES
    floor_plan,          \* FloorPlanPDF: width_m, height_m, resolution, grid_width, grid_height, grid
    query,               \* last get_probability call made from outside: [x, y, result]
    current_estimate,    \* BayesianNavigationFilter.current_estimate: [x, y]
    position_history,    \* BayesianNavigationFilter.position_history
    current_covariance,  \* BayesianNavigationFilter.current_covariance: the factor of np.eye(2), in tenths
    call,                \* last call on the Bayesian filter: [op, heading, stride, x, y, outcome]
    trajectory,          \* the position set by __init__ or the last reset, then every estimate update committed since
    n_calls,             \* number of update calls made on the Bayesian filter
    n_particles,         \* ParticleFilter.n_particles
    particles,           \* ParticleFilter.particles: sequence of [x, y]
    weights,             \* ParticleFilter.weights: sequence of rationals [num, den]
    pf_call,             \* last call on the particle filter: [op, x, y], and for
                         \* update_stride the weights before it, the particles
                         \* after predict and the weights after update
    pf_steps,            \* number of update_stride calls made on the particle filter
    params,              \* BayesianNavigationFilter's tunable parameters and floor-plan reference
    walk,                \* headings of the update calls of the demo walk, in call order
    kalman_x,            \* KalmanFilter.x: [x, y, vx, vy], mm and mm/s
    kalman_P,            \* KalmanFilter.P, the same for both axes: [pp, pv, vv], 1e-4 m^2
    positions,           \* web_dashboard_advanced.positions: algorithm -> [x, y]
    trajectories,        \* web_dashboard_advanced.trajectories: algorithm -> number of entries
    stride_count,        \* web_dashboard_advanced.stride_count
    pc,                  \* per thread: the statement of its handler it is about to execute
    frame,               \* per thread: the locals of its handler
    joystick_walk_lock,  \* holder of joystick_walk_lock, or "free"
    kf_calls,            \* predict/update calls made on the Kalman filter, in call order
    requests,            \* number of handlers started
    clock,               \* time.time() / datetime.utcnow() of the MQTT clients, in tenths of a second
    detector,            \* MalfunctionDetector: its excursion starts, alarm flags and counters
    md_call,             \* last rule check of the detector: [rule, value, now, returned], and
                         \* the alarms raised per rule since the last reading at or below threshold
    subscriber,          \* WindowedMQTTSubscriber: its four buffers of (timestamp, value) and message_count
    joystick_walk_active,  \* web_dashboard_advanced.joystick_walk_active
    joystick_walk_thread,  \* web_dashboard_advanced.joystick_walk_thread: a thread id, or 0 for None
    monitor_threads,     \* the joystick_walk_monitor threads ever started: id -> its position
    jw_pc                \* per request thread: the statement of start/stop_joystick_walk it is about to execute

vars == <<floor_plan, query, current_estimate, position_history, current_covariance,
          call, trajectory, n_calls, n_particles, particles, weights, pf_call, pf_steps,
          params, walk, kalman_x, kalman_P, positions, trajectories, stride_count,
          pc, frame, joystick_walk_lock, kf_calls, requests,
          clock, detector, md_call, subscriber,
          joystick_walk_active, joystick_walk_thread, monitor_threads, jw_pc>>

fp_vars == <<floor_plan>>
bf_vars == <<current_estimate, position_history, current_covariance, call, trajectory, n_calls,
            params>>
pf_vars == <<n_particles, particles, weights, pf_call, pf_steps>>
kf_vars == <<kalman_x, kalman_P, kf_calls>>
web_vars == <<positions, trajectories, stride_count, pc, frame, joystick_walk_lock, requests>>
mqtt_vars == <<clock, detector, md_call, subscriber>>
jw_vars == <<joystick_walk_active, joystick_walk_thread, monitor_threads, jw_pc>>

Abs(n) == IF n < 0 THEN -n ELSE n
Pos(x, y) == [x |-> x, y |-> y]
Min(a, b) == IF a < b THEN a ELSE b
Max(a, b) == IF a > b THEN a ELSE b

(***************************************************************************)
(* Python's int(a / b) on IEEE-754 doubles, for a and b given in           *)
(* millimetres and written as decimal literals of metres (a = 300, b = 100 *)
(* is int(0.3 / 0.1)).  int() truncates toward zero.  The double quotient  *)
(* of two such literals is the exact quotient except where the exact       *)
(* quotient is a whole number k and the double division rounds just below  *)
(* it, which int() truncates to k - 1: 0.3 / 0.1 = 2.9999999999999996.     *)
(* For b = 0.1 and 0 <= a <= 20.0 this happens exactly at the quotients of *)
(* RoundsBelow; for b = 0.25 and b = 0.5 (powers of two times a literal    *)
(* that divides exactly) it never happens.                                 *)
(***************************************************************************)
RoundsBelow ==
    {3, 6, 7, 12, 14, 19, 23, 24, 28, 29, 33, 38, 41, 43, 46, 48, 51, 53, 56, 58,
     61, 63, 66, 71, 76, 81, 82, 86, 87, 91, 92, 96, 97, 101, 102, 106, 107, 111,
     112, 116, 117, 121, 122, 126, 127, 132, 137, 142, 147, 152, 157, 162, 164,
     167, 169, 172, 174, 177, 179, 182, 184, 187, 189, 192, 194, 197, 199}

PyInt(a, b) ==
    LET q == Abs(a) \div b
        low == Abs(a) % b = 0 /\ b = 100 /\ q \in RoundsBelow
        t == IF low THEN q - 1 ELSE q
    IN  IF a < 0 THEN -t ELSE t

(***************************************************************************)
(* FloorPlanPDF                                                            *)
(***************************************************************************)
WALL_P == 1             \* 0.01, the value of a wall cell and of a point outside the grid
WALKABLE_P == 100       \* 1.0, the value of a walkable cell
wall_thickness == 300   \* 0.3 m

\* The grid built by _create_simple_floor_plan is 0.01 everywhere except on the
\* slice grid[y_start:y_end, x_start:x_end], which is 1.0: the grid is kept as
\* that slice.
create_simple_floor_plan(width_m, height_m, resolution, grid_width, grid_height) ==
    LET x_start0 == PyInt(wall_thickness, resolution)
        x_end0 == PyInt(width_m - wall_thickness, resolution)
        y_start0 == PyInt(wall_thickness, resolution)
        y_end0 == PyInt(height_m - wall_thickness, resolution)
        x_start == Max(0, Min(x_start0, grid_width - 1))
        x_end == Max(x_start + 1, Min(x_end0, grid_width))
        y_start == Max(0, Min(y_start0, grid_height - 1))
        y_end == Max(y_start + 1, Min(y_end0, grid_height))
    IN  [x_start |-> x_start, x_end |-> x_end, y_start |-> y_start, y_end |-> y_end]

FloorPlanPDF(width_m, height_m, resolution) ==
    LET grid_width == PyInt(width_m, resolution)
        grid_height == PyInt(height_m, resolution)
    IN  [width_m |-> width_m, height_m |-> height_m, resolution |-> resolution,
         grid_width |-> grid_width, grid_height |-> grid_height,
         grid |-> create_simple_floor_plan(width_m, height_m, resolution,
                                           grid_width, grid_height)]

\* self.grid[grid_y, grid_x] for indices inside the array
GridAt(fp, grid_y, grid_x) ==
    IF /\ fp.grid.y_start <= grid_y /\ grid_y < fp.grid.y_end
       /\ fp.grid.x_start <= grid_x /\ grid_x < fp.grid.x_end
    THEN WALKABLE_P
    ELSE WALL_P

get_probability(fp, x, y) ==
    LET grid_x == PyInt(x, fp.resolution)
        grid_y == PyInt(y, fp.resolution)
    IN  IF /\ 0 <= grid_x /\ grid_x < fp.grid_width
           /\ 0 <= grid_y /\ grid_y < fp.grid_height
        THEN GridAt(fp, grid_y, grid_x)
        ELSE WALL_P

(***************************************************************************)
(* Integer arithmetic for the likelihoods                                  *)
(***************************************************************************)
RoundDiv(n, d) ==
    LET q == (2 * Abs(n) + d) \div (2 * d)
    IN  IF n < 0 THEN -q ELSE q

RECURSIVE NewtonSqrt(_, _)
NewtonSqrt(n, x) ==
    LET y == (x + n \div x) \div 2
    IN  IF y >= x THEN x ELSE NewtonSqrt(n, y)

\* floor of the square root of n, 0 <= n < 2^30
ISqrt(n) == IF n = 0 THEN 0 ELSE NewtonSqrt(n, 32768)

\* np.log(1 + np.exp(-t)) in thousandths, t >= 0 in thousandths: the values at
\* t = 0, 1, 2, ... joined by straight lines
Log1pExpTable == <<693, 313, 127, 49, 18, 7, 2, 1, 0>>

Log1pExp(t) ==
    LET i == t \div 1000
        r == t % 1000
    IN  IF i >= 8 THEN 0
        ELSE Log1pExpTable[i + 1]
             - ((Log1pExpTable[i + 1] - Log1pExpTable[i + 2]) * r) \div 1000

LOG_EPS == -23026   \* np.log(1e-10)

\* np.log(p) without the 1e-10
LogWithoutEps(logp) == logp

\* np.log(p + 1e-10) for a likelihood p given by its logarithm logp
LogPlusEps(logp) == Max(logp, LOG_EPS) + Log1pExp(Abs(logp - LOG_EPS))

\* np.log(p_fp + 1e-10) for the two values a floor plan holds
LogFloorPlan(p_fp) == IF p_fp = WALKABLE_P THEN 0 ELSE -4605

(***************************************************************************)
(* Headings: np.sin and np.cos in thousandths                              *)
(***************************************************************************)
NaN == "nan"
Headings == {"0", "pi/4", "pi/2", "pi", "3pi/2"}

Sin1000(heading) ==
    CASE heading = "0" -> 0
      [] heading = "pi/4" -> 707
      [] heading = "pi/2" -> 1000
      [] heading = "pi" -> 0
      [] heading = "3pi/2" -> -1000

Cos1000(heading) ==
    CASE heading = "0" -> 1000
      [] heading = "pi/4" -> 707
      [] heading = "pi/2" -> 0
      [] heading = "pi" -> -1000
      [] heading = "3pi/2" -> 0

(***************************************************************************)
(* BayesianNavigationFilter                                                *)
(***************************************************************************)
sigma_stride == 100          \* 0.1 m
floor_plan_weight == 1000
INITIAL_COVARIANCE == 5      \* np.eye(2) * 0.5
UPDATE_COVARIANCE == 3       \* np.eye(2) * 0.3
HISTORY_LIMIT == 10          \* "Keep only last 10 positions"
n_samples == 10
WALL_THRESHOLD == 10         \* sample_prob < 0.1

SqDist(x, y, x2, y2) == (x - x2) * (x - x2) + (y - y2) * (y - y2)

\* logarithm of p_stride_circle
p_stride_circle(x, y, x_prev, y_prev, stride_length) ==
    LET distance == ISqrt(SqDist(x, y, x_prev, y_prev))
        dev == distance - stride_length
    IN  -((dev * dev) \div ((2 * sigma_stride * sigma_stride) \div 1000)) + 1384

\* logarithm of p_sensor_likelihood: cov = np.eye(2) * sigma_heading**2, sigma_heading = 0.5
p_sensor_likelihood(x, y, x_prev, y_prev, heading, stride_length) ==
    LET z_x == x_prev + RoundDiv(stride_length * Sin1000(heading), 1000)
        z_y == y_prev + RoundDiv(stride_length * Cos1000(heading), 1000)
    IN  -(SqDist(x, y, z_x, z_y) \div 500) - 452

\* logarithm of p_motion_model, which is the constant 1.0
p_motion_model(x, y) == 0

\* logarithm of p_previous_posterior: weak_cov = np.eye(2) * 2.0
p_previous_posterior(est, x, y) ==
    -(SqDist(x, y, est.x, est.y) \div 4000) - 2531

FloorPlanTermUnweighted(p_fp) == LogFloorPlan(p_fp)

FloorPlanTerm(p_fp) == floor_plan_weight * LogFloorPlan(p_fp)

posterior_probability(fp, est, pos, x_prev, y_prev, heading, stride_length) ==
    LET p_fp == get_probability(fp, pos.x, pos.y)
        p_stride == p_stride_circle(pos.x, pos.y, x_prev, y_prev, stride_length)
        p_sensor == p_sensor_likelihood(pos.x, pos.y, x_prev, y_prev, heading, stride_length)
        p_motion == p_motion_model(pos.x, pos.y)
        p_prev == p_previous_posterior(est, pos.x, pos.y)
    IN  FloorPlanTerm(p_fp) + LogPlusEps(p_stride) + LogPlusEps(p_sensor)
        + p_motion + LogPlusEps(p_prev)

negative_posterior(fp, est, pos, x_prev, y_prev, heading, stride_length) ==
    -posterior_probability(fp, est, pos, x_prev, y_prev, heading, stride_length)

(***************************************************************************)
(* scipy.optimize.minimize(method='L-BFGS-B', bounds=...) as update uses   *)
(* it.  L-BFGS-B projects the starting point onto the box, only ever       *)
(* accepts a step that lowers the objective, and returns its last iterate  *)
(* whether or not it converged: the result is some point of the box where  *)
(* the objective is no higher than at the projected starting point.  The   *)
(* points tried are the projected starting point and the points at the     *)
(* offsets OptOffsets from the previous position.                          *)
(***************************************************************************)
OptOffsets == {-700, 0, 700}

Clip(v, lo, hi) == Max(lo, Min(v, hi))

InBox(fp, pos) ==
    /\ 0 <= pos.x /\ pos.x <= fp.width_m
    /\ 0 <= pos.y /\ pos.y <= fp.height_m

ProjectNothing(fp, pos) == pos

Project(fp, pos) == [x |-> Clip(pos.x, 0, fp.width_m), y |-> Clip(pos.y, 0, fp.height_m)]

Iterates(fp, x0, x_prev, y_prev) ==
    {Project(fp, x0)} \cup
    {pos \in {[x |-> x_prev + dx, y |-> y_prev + dy] : dx \in OptOffsets, dy \in OptOffsets} :
        InBox(fp, pos)}

minimize(fp, est, x0, x_prev, y_prev, heading, stride_length) ==
    {pos \in Iterates(fp, x0, x_prev, y_prev) :
        negative_posterior(fp, est, pos, x_prev, y_prev, heading, stride_length)
            <= negative_posterior(fp, est, Project(fp, x0), x_prev, y_prev, heading, stride_length)}

\* result.success: the optimizer stopped at a point that none of the points tried
\* improves on; False when it stopped before that (iteration or evaluation limit
\* reached, abnormal termination of the line search)
success(fp, est, result, x0, x_prev, y_prev, heading, stride_length) ==
    \A pos \in Iterates(fp, x0, x_prev, y_prev) :
        negative_posterior(fp, est, result, x_prev, y_prev, heading, stride_length)
            <= negative_posterior(fp, est, pos, x_prev, y_prev, heading, stride_length)

\* the sample points of the wall scan, i = 1 .. n_samples, t = i / n_samples
SamplePoint(x_prev, y_prev, imu_x, imu_y, i) ==
    [x |-> x_prev + RoundDiv(i * (imu_x - x_prev), n_samples),
     y |-> y_prev + RoundDiv(i * (imu_y - y_prev), n_samples)]

\* the wall scan with range(1, n_samples): the IMU point itself is not sampled
path_crosses_wall_short_scan(fp, x_prev, y_prev, imu_x, imu_y) ==
    \E i \in 1..(n_samples - 1) :
        LET s == SamplePoint(x_prev, y_prev, imu_x, imu_y, i)
        IN  get_probability(fp, s.x, s.y) < WALL_THRESHOLD

path_crosses_wall(fp, x_prev, y_prev, imu_x, imu_y) ==
    \E i \in 1..n_samples :
        LET s == SamplePoint(x_prev, y_prev, imu_x, imu_y, i)
        IN  get_probability(fp, s.x, s.y) < WALL_THRESHOLD

AppendHistoryPopNewest(history, est) ==
    LET h == Append(history, est)
    IN  IF Len(h) > HISTORY_LIMIT THEN SubSeq(h, 1, HISTORY_LIMIT) ELSE h

\* position_history.append(...) followed by the pop(0) that keeps 10 entries
AppendHistory(history, est) ==
    LET h == Append(history, est)
    IN  IF Len(h) > HISTORY_LIMIT THEN Tail(h) ELSE h

Called(op, heading, stride_length, x, y, outcome) ==
    [op |-> op, heading |-> heading, stride |-> stride_length, x |-> x, y |-> y,
     outcome |-> outcome, x0 |-> [x |-> x, y |-> y]]

\* the attributes __init__ sets and no method assigns: stride_length, n_history,
\* the sigmas, floor_plan_weight, and the floor plan the filter refers to
sigma_heading == 500         \* 0.5 rad
sigma_motion == 500          \* 0.5 m
n_history == 3
STRIDE_LENGTH == 700         \* 0.7 m

TunableParameters(fp, stride_length) ==
    [floor_plan |-> fp, stride_length |-> stride_length, n_history |-> n_history,
     sigma_stride |-> sigma_stride, sigma_heading |-> sigma_heading,
     sigma_motion |-> sigma_motion, floor_plan_weight |-> floor_plan_weight,
     id |-> 0]   \* id: which BayesianNavigationFilter object this is

\* current_estimate, position_history and current_covariance after __init__
BayesInit ==
    /\ current_estimate = [x |-> 2000, y |-> 4000]
    /\ position_history = <<>>
    /\ current_covariance = INITIAL_COVARIANCE
    /\ call = Called("init", "-", 0, 2000, 4000, "returned")
    /\ trajectory = <<[x |-> 2000, y |-> 4000]>>
    /\ n_calls = 0
    /\ params = TunableParameters(floor_plan, STRIDE_LENGTH)

\* the IMU prediction in the convention x = cos, y = sin
imu_prediction_math_convention(x_prev, y_prev, heading, stride_length) ==
    [x |-> x_prev + RoundDiv(stride_length * Cos1000(heading), 1000),
     y |-> y_prev + RoundDiv(stride_length * Sin1000(heading), 1000)]

\* the IMU prediction (navigation convention: x = sin, y = cos)
imu_prediction(x_prev, y_prev, heading, stride_length) ==
    [x |-> x_prev + RoundDiv(stride_length * Sin1000(heading), 1000),
     y |-> y_prev + RoundDiv(stride_length * Cos1000(heading), 1000)]

\* x0: the previous position if the sampled path crosses a wall, else the IMU prediction
starting_point(fp, x_prev, y_prev, heading, stride_length) ==
    LET imu == imu_prediction(x_prev, y_prev, heading, stride_length)
    IN  IF path_crosses_wall(fp, x_prev, y_prev, imu.x, imu.y)
        THEN [x |-> x_prev, y |-> y_prev]
        ELSE imu

\* update, up to the return of minimize: the estimates the optimizer may return
optimize(est, heading, stride_length) ==
    minimize(floor_plan, est,
             starting_point(floor_plan, est.x, est.y, heading, stride_length),
             est.x, est.y, heading, stride_length)

\* update, from "Extract estimate" to the return
\* commit that appends to the history before it assigns the new estimate
commit_appends_first(result, heading, stride_length, x0) ==
    /\ current_estimate' = result
    /\ current_covariance' = UPDATE_COVARIANCE
    /\ position_history' = AppendHistory(position_history, current_estimate)
    /\ trajectory' = Append(trajectory, result)
    /\ call' = [Called("update", heading, stride_length, result.x, result.y, "returned")
                EXCEPT !.x0 = x0]

\* commit under 'if result.success:', the estimate kept otherwise
commit_if_success(result, heading, stride_length, x0) ==
    /\ IF success(floor_plan, current_estimate, result, x0, current_estimate.x,
                  current_estimate.y, heading, stride_length)
       THEN /\ current_estimate' = result
            /\ position_history' = AppendHistory(position_history, result)
            /\ trajectory' = Append(trajectory, result)
       ELSE UNCHANGED <<current_estimate, position_history, trajectory>>
    /\ current_covariance' = UPDATE_COVARIANCE
    /\ call' = [Called("update", heading, stride_length, result.x, result.y, "returned")
                EXCEPT !.x0 = x0]

commit(result, heading, stride_length, x0) ==
    /\ current_estimate' = result
    /\ current_covariance' = UPDATE_COVARIANCE
    /\ position_history' = AppendHistory(position_history, result)
    /\ trajectory' = Append(trajectory, result)
    /\ call' = [Called("update", heading, stride_length, result.x, result.y, "returned")
                EXCEPT !.x0 = x0]

\* update(heading, stride_length).  With a NaN heading the first sample point is
\* NaN and get_probability's int() raises ValueError before anything is assigned.
\* update that keeps the stride it was given: self.stride_length = stride_length
update_stores_stride_length(heading, stride_length) ==
    LET x_prev == current_estimate.x
        y_prev == current_estimate.y
    IN  /\ n_calls' = n_calls + 1
        /\ params' = [params EXCEPT !.stride_length = stride_length]
        /\ IF heading = NaN
           THEN /\ call' = Called("update", heading, stride_length, x_prev, y_prev, "ValueError")
                /\ UNCHANGED <<current_estimate, position_history, current_covariance, trajectory>>
           ELSE \E result \in optimize(current_estimate, heading, stride_length) :
                    commit(result, heading, stride_length,
                           starting_point(floor_plan, x_prev, y_prev, heading, stride_length))

update(heading, stride_length) ==
    LET x_prev == current_estimate.x
        y_prev == current_estimate.y
    IN  /\ n_calls' = n_calls + 1
        /\ UNCHANGED params
        /\ IF heading = NaN
           THEN /\ call' = Called("update", heading, stride_length, x_prev, y_prev, "ValueError")
                /\ UNCHANGED <<current_estimate, position_history, current_covariance, trajectory>>
           ELSE \E result \in optimize(current_estimate, heading, stride_length) :
                    commit(result, heading, stride_length,
                           starting_point(floor_plan, x_prev, y_prev, heading, stride_length))

reset_keeps_history(x, y) ==
    /\ current_estimate' = [x |-> x, y |-> y]
    /\ current_covariance' = INITIAL_COVARIANCE
    /\ trajectory' = <<[x |-> x, y |-> y]>>
    /\ call' = Called("reset", "-", 0, x, y, "returned")
    /\ UNCHANGED <<position_history, n_calls, params>>

\* bayesian_filter = BayesianNavigationFilter(floor_plan, stride_length=STRIDE_LENGTH)
\* followed by reset(x, y) on the new object
reset_keeps_nothing(x, y) ==
    /\ position_history' = <<>>
    /\ current_estimate' = [x |-> x, y |-> y]
    /\ current_covariance' = INITIAL_COVARIANCE
    /\ trajectory' = <<[x |-> x, y |-> y]>>
    /\ call' = Called("reset", "-", 0, x, y, "returned")
    /\ params' = [TunableParameters(floor_plan, STRIDE_LENGTH) EXCEPT !.id = params.id + 1]
    /\ UNCHANGED n_calls

reset(x, y) ==
    /\ position_history' = <<>>
    /\ current_estimate' = [x |-> x, y |-> y]
    /\ current_covariance' = INITIAL_COVARIANCE
    /\ trajectory' = <<[x |-> x, y |-> y]>>
    /\ call' = Called("reset", "-", 0, x, y, "returned")
    /\ UNCHANGED <<n_calls, params>>

(***************************************************************************)
(* Exact arithmetic for the particle weights.  A weight is a rational      *)
(* [num, den] in lowest terms; the source holds it as a double.            *)
(***************************************************************************)
RECURSIVE GCD(_, _)
GCD(a, b) == IF b = 0 THEN a ELSE GCD(b, a % b)

Rat(n, d) ==
    LET g == GCD(Abs(n), d)
    IN  IF n = 0 THEN [num |-> 0, den |-> 1] ELSE [num |-> n \div g, den |-> d \div g]

RatMul(a, b) ==
    LET g1 == GCD(Abs(a.num), b.den)
        g2 == GCD(Abs(b.num), a.den)
    IN  IF a.num = 0 \/ b.num = 0 THEN Rat(0, 1)
        ELSE Rat((a.num \div g1) * (b.num \div g2), (a.den \div g2) * (b.den \div g1))

RatDiv(a, b) == RatMul(a, [num |-> b.den, den |-> b.num])

RatAdd(a, b) ==
    LET g == GCD(a.den, b.den)
    IN  Rat(a.num * (b.den \div g) + b.num * (a.den \div g), (a.den \div g) * b.den)

RatLess(a, b) ==
    LET g == GCD(a.den, b.den)
    IN  a.num * (b.den \div g) < b.num * (a.den \div g)

RECURSIVE RatSum(_)
RatSum(seq) == IF seq = <<>> THEN Rat(0, 1) ELSE RatAdd(Head(seq), RatSum(Tail(seq)))

RECURSIVE LcmDen(_)
LcmDen(seq) ==
    IF seq = <<>> THEN 1
    ELSE LET l == LcmDen(Tail(seq))
         IN  (Head(seq).den \div GCD(Head(seq).den, l)) * l

\* a * a for 0 <= a < 10^8 as <<c0, c1, c2>>, the value c0 + c1 * 10^4 + c2 * 10^8
Square3(a) ==
    LET a1 == a \div 10000
        a0 == a % 10000
    IN  <<a0 * a0, 2 * a1 * a0, a1 * a1>>

RECURSIVE SumSquares3(_)
SumSquares3(nums) ==
    IF nums = <<>> THEN <<0, 0, 0>>
    ELSE LET h == Square3(Head(nums))
             t == SumSquares3(Tail(nums))
         IN  <<h[1] + t[1], h[2] + t[2], h[3] + t[3]>>

\* <<c0, c1, c2>> with the carries moved up: c0, c1 < 10^4
Carry3(c) ==
    LET c1 == c[2] + c[1] \div 10000
    IN  <<c[1] % 10000, c1 % 10000, c[3] + c1 \div 10000>>

Less3(a, b) ==
    LET x == Carry3(a)
        y == Carry3(b)
    IN  \/ x[3] < y[3]
        \/ x[3] = y[3] /\ x[2] < y[2]
        \/ x[3] = y[3] /\ x[2] = y[2] /\ x[1] < y[1]

Scale3(k, c) == <<k * c[1], k * c[2], k * c[3]>>

(***************************************************************************)
(* ParticleFilter                                                          *)
(***************************************************************************)
\* the draws of np.random.normal(0, 0.5) that __init__ adds to (initial_x, initial_y)
InitNoise == {Pos(0, 0), Pos(500, -400)}

\* the displacement noise predict adds to a particle's stride: the effect of the
\* np.random.normal draws for the heading and for dx, dy
PredictNoise == {Pos(0, 0), Pos(300, -300)}

\* the largest double below 1, 1 - 2^-53, which np.random.random() can return
AlmostOne == [num |-> 1, den |-> 1]

\* the draws of np.random.random() in resample: 1/2 and the largest double below 1
ResampleDraws == {[num |-> 1, den |-> 2], AlmostOne}

\* np.ones(n_particles) without the division
UniformUnnormalised(n) == [i \in 1..n |-> Rat(1, 1)]

Uniform(n) == [i \in 1..n |-> Rat(1, n)]

\* predict: every particle moves by the stride along the heading plus its noise
predict(parts, stride_length, heading, noise) ==
    [i \in 1..Len(parts) |->
        [x |-> parts[i].x + RoundDiv(stride_length * Sin1000(heading), 1000) + noise[i].x,
         y |-> parts[i].y + RoundDiv(stride_length * Cos1000(heading), 1000) + noise[i].y]]

NormalizeSkipped(w, n) == w

\* the normalisation at the end of update
Normalize(w, n) ==
    LET weight_sum == RatSum(w)
    IN  IF weight_sum.num > 0
        THEN [i \in 1..Len(w) |-> RatDiv(w[i], weight_sum)]
        ELSE Uniform(n)

\* update that sets each weight to the floor-plan probability: = instead of *=
reweight_forgets_weight(fp, parts, w, n) ==
    Normalize([i \in 1..n |-> Rat(get_probability(fp, parts[i].x, parts[i].y), 100)], n)

\* update: reweight by the floor plan, then normalise
reweight(fp, parts, w, n) ==
    Normalize([i \in 1..n |->
                  RatMul(w[i], Rat(get_probability(fp, parts[i].x, parts[i].y), 100))], n)

\* n_eff < n_particles / 2 with n_eff = 1 / sum(w^2): with the weights written
\* over their common denominator d as nums / d, 2 * d^2 < n * sum(nums^2)
LowEffectiveSampleSize(w, n) ==
    LET d == LcmDen(w)
        nums == [i \in 1..Len(w) |-> w[i].num * (d \div w[i].den)]
    IN  Less3(Scale3(2, Square3(d)), Scale3(n, SumSquares3(nums)))

RECURSIVE CumSum(_, _)
CumSum(w, k) == IF k = 0 THEN Rat(0, 1) ELSE RatAdd(CumSum(w, k - 1), w[k])

\* positions[i] < c with positions = (np.arange(n) + u) / n in doubles.  With
\* u = 1 - 2^-53 the sum i + u rounds to i + 1 for every i >= 1, so positions[i]
\* is the double of (i + 1) / n and positions[n - 1] is 1.0; positions[0] = u / n
\* stays just below 1 / n.
PositionBelow(n, u, i, c) ==
    IF u = AlmostOne
    THEN IF i = 0 THEN ~RatLess(c, Rat(1, n)) ELSE RatLess(Rat(i + 1, n), c)
    ELSE RatLess(Rat(i * u.den + u.num, n * u.den), c)

\* the while loop of resample from (i, j), 0-based as in the source: the indices
\* j copied into new_particles[i], new_particles[i + 1], ...  Reading cumsum[j]
\* with j = n_particles raises IndexError: the sequence then ends with -1.
RECURSIVE ResampleLoop(_, _, _, _, _)
ResampleLoop(w, n, u, i, j) ==
    IF i >= n THEN <<>>
    ELSE IF j >= n THEN <<-1>>
    ELSE IF PositionBelow(n, u, i, CumSum(w, j + 1))
         THEN <<j>> \o ResampleLoop(w, n, u, i + 1, j)
         ELSE ResampleLoop(w, n, u, i, j + 1)

\* the loop of resample ended by an IndexError
Raised(picked) == \E k \in 1..Len(picked) : picked[k] < 0

\* resample: the particles and weights after it, and the source indices its loop
\* copied from (none when it does not resample); an IndexError leaves particles
\* and weights as they were, the assignments being the last statements
resample(parts, w, n, u) ==
    IF LowEffectiveSampleSize(w, n)
    THEN LET picked == ResampleLoop(w, n, u, 0, 0)
         IN  IF ~Raised(picked)
             THEN [particles |-> [k \in 1..n |-> parts[picked[k] + 1]],
                   weights |-> Uniform(n), picked |-> picked]
             ELSE [particles |-> parts, weights |-> w, picked |-> picked]
    ELSE [particles |-> parts, weights |-> w, picked |-> <<>>]

\* get_position: the weighted mean, as a pair of rationals
RECURSIVE WeightedSum(_, _, _)
WeightedSum(w, vals, k) ==
    IF k = 0 THEN Rat(0, 1)
    ELSE RatAdd(WeightedSum(w, vals, k - 1), RatMul(w[k], Rat(vals[k], 1)))

weighted_mean(parts, w) ==
    [x |-> WeightedSum(w, [i \in 1..Len(parts) |-> parts[i].x], Len(parts)),
     y |-> WeightedSum(w, [i \in 1..Len(parts) |-> parts[i].y], Len(parts))]

get_position == weighted_mean(particles, weights)

\* ParticleFilter(floor_plan, n_particles=n, initial_x=x, initial_y=y)
PfCalled(op, x, y, prior, moved, reweighted, picked) ==
    [op |-> op, x |-> x, y |-> y, prior |-> prior, moved |-> moved, reweighted |-> reweighted,
     picked |-> picked]

ParticleFilter(n, x, y) ==
    \E noise \in [1..n -> InitNoise] :
        /\ n_particles' = n
        /\ particles' = [i \in 1..n |-> [x |-> x + noise[i].x, y |-> y + noise[i].y]]
        /\ weights' = Uniform(n)
        /\ pf_call' = PfCalled("init", x, y, <<>>, <<>>, <<>>, <<>>)

\* update_stride: predict, update, resample
\* (np.random.random() is called only when resample resamples; each intermediate
\* value is bound once, as the one element of a set)
update_stride(stride_length, heading) ==
    \E noise \in [1..n_particles -> PredictNoise] :
      \E moved \in {predict(particles, stride_length, heading, noise)} :
        \E reweighted \in {reweight(floor_plan, moved, weights, n_particles)} :
          \E u \in IF LowEffectiveSampleSize(reweighted, n_particles)
                    THEN ResampleDraws ELSE {AlmostOne} :
            \E after \in {resample(moved, reweighted, n_particles, u)} :
                /\ particles' = after.particles
                /\ weights' = after.weights
                /\ pf_call' = PfCalled("update_stride", 0, 0, weights, moved, reweighted,
                                        after.picked)
                /\ pf_steps' = pf_steps + 1
                /\ UNCHANGED n_particles

(***************************************************************************)
(* KalmanFilter with dt = 0.5.  The x and y axes never mix (F, Q, H and    *)
(* the initial P are block-diagonal), and both axes carry the same         *)
(* covariance block [[pp, pv], [pv, vv]].                                  *)
(***************************************************************************)
KF_P0 == 10000              \* np.eye(4) * 1.0
KF_Q11 == 16                \* q * dt**4 / 4 = 0.0015625
KF_Q13 == 63                \* q * dt**3 / 2 = 0.00625
KF_Q33 == 250               \* q * dt**2 = 0.025
KF_R == 2500                \* r**2 = 0.25

\* KalmanFilter(initial_x, initial_y, dt=0.5)
KalmanFilter(initial_x, initial_y) ==
    [x |-> [x |-> initial_x, y |-> initial_y, vx |-> 0, vy |-> 0],
     P |-> [pp |-> KF_P0, pv |-> 0, vv |-> KF_P0]]

\* predict: x = F x, P = F P F^T + Q
kalman_predict(kx, kP) ==
    [x |-> [x |-> kx.x + RoundDiv(kx.vx, 2), y |-> kx.y + RoundDiv(kx.vy, 2),
            vx |-> kx.vx, vy |-> kx.vy],
     P |-> [pp |-> kP.pp + kP.pv + RoundDiv(kP.vv, 4) + KF_Q11,
            pv |-> kP.pv + RoundDiv(kP.vv, 2) + KF_Q13,
            vv |-> kP.vv + KF_Q33]]

\* update(measurement): y = z - H x, S = H P H^T + R, K = P H^T S^-1
kalman_update(kx, kP, z) ==
    LET S == kP.pp + KF_R
        y_x == z.x - kx.x
        y_y == z.y - kx.y
    IN  [x |-> [x |-> kx.x + RoundDiv(kP.pp * y_x, S),
                y |-> kx.y + RoundDiv(kP.pp * y_y, S),
                vx |-> kx.vx + RoundDiv(kP.pv * y_x, S),
                vy |-> kx.vy + RoundDiv(kP.pv * y_y, S)],
         P |-> [pp |-> RoundDiv(kP.pp * KF_R, S),
                pv |-> RoundDiv(kP.pv * KF_R, S),
                vv |-> kP.vv - RoundDiv(kP.pv * kP.pv, S)]]

kalman_get_position(kx) == [x |-> kx.x, y |-> kx.y]

(***************************************************************************)
(* web_dashboard_advanced: the request handlers and the joystick callback  *)
(* that drive the three filters.  Flask runs with threaded=True, so every  *)
(* request runs in a thread of its own; the joystick callback runs in the  *)
(* sense_hat thread.  A thread executes its handler one statement at a     *)
(* time; pc[t] names the statement thread t executes next.                 *)
(***************************************************************************)
\* one request thread and the sense_hat callback thread
HttpThreads == {"http1"}
Threads == HttpThreads \cup {"joystick"}
Algorithms == {"naive", "bayesian", "kalman", "particle"}

\* the first headings of mock_test's test_headings: East x 4, North x 3
test_headings == <<"0", "0", "0", "0", "pi/2", "pi/2", "pi/2">>

NoFrame ==
    [handler |-> "none", yaw |-> "-", result |-> Pos(0, 0), x0 |-> Pos(0, 0), obj |-> 0,
     meas |-> Pos(0, 0), count |-> 0, left |-> 0, start |-> Pos(0, 0)]

Goto(t, loc) == pc' = [pc EXCEPT ![t] = loc]

\* round(value, 3) of a rational number of millimetres
Round3(r) == RoundDiv(r.num, r.den)

\* "Standard math: x = cos(angle), y = sin(angle)"
MathProjection(pos, yaw) ==
    [x |-> pos.x + RoundDiv(STRIDE_LENGTH * Cos1000(yaw), 1000),
     y |-> pos.y + RoundDiv(STRIDE_LENGTH * Sin1000(yaw), 1000)]

\* x = sin(yaw), y = cos(yaw), as record_stride computes it
NavigationProjection(pos, yaw) ==
    [x |-> pos.x + RoundDiv(STRIDE_LENGTH * Sin1000(yaw), 1000),
     y |-> pos.y + RoundDiv(STRIDE_LENGTH * Cos1000(yaw), 1000)]

AllAt(pos) == [a \in Algorithms |-> pos]

Appended(a) == [trajectories EXCEPT ![a] = @ + 1]

\* the handler is over: the thread is idle again
Return(t) ==
    /\ Goto(t, "idle")
    /\ frame' = [frame EXCEPT ![t] = NoFrame]

\* process_stride_all_algorithms, 1. NAIVE
Naive(t) ==
    /\ pc[t] = "naive"
    /\ positions' = [positions EXCEPT !.naive = MathProjection(positions.naive, frame[t].yaw)]
    /\ trajectories' = Appended("naive")
    /\ Goto(t, "bayes")
    /\ UNCHANGED <<fp_vars, mqtt_vars, jw_vars, query, walk, bf_vars, pf_vars, kf_vars, stride_count, frame,
                   joystick_walk_lock, requests>>

\* bayesian_filter.update(heading=yaw, stride_length=STRIDE_LENGTH) up to the
\* return of minimize
BayesBegin(t) ==
    /\ pc[t] = "bayes"
    /\ \E result \in optimize(current_estimate, frame[t].yaw, STRIDE_LENGTH) :
          frame' = [frame EXCEPT ![t].result = result,
                                 ![t].x0 = starting_point(floor_plan, current_estimate.x,
                                                          current_estimate.y, frame[t].yaw,
                                                          STRIDE_LENGTH),
                                 ![t].obj = params.id]
    /\ Goto(t, "bayes_commit")
    /\ UNCHANGED <<fp_vars, mqtt_vars, jw_vars, query, walk, bf_vars, pf_vars, kf_vars, positions, trajectories,
                   stride_count, joystick_walk_lock, requests>>

\* the rest of update, on the object it was called on, and the handler's record
\* of the returned position
BayesCommit(t) ==
    /\ pc[t] = "bayes_commit"
    /\ IF frame[t].obj = params.id
       THEN /\ commit(frame[t].result, frame[t].yaw, STRIDE_LENGTH, frame[t].x0)
            /\ n_calls' = n_calls + 1
            /\ UNCHANGED params
       ELSE UNCHANGED bf_vars
    /\ positions' = [positions EXCEPT !.bayesian = frame[t].result]
    /\ trajectories' = Appended("bayesian")
    /\ Goto(t, IF frame[t].handler = "record_stride" THEN "count" ELSE "kalman_meas")
    /\ UNCHANGED <<fp_vars, mqtt_vars, jw_vars, query, walk, pf_vars, kf_vars, stride_count, frame,
                   joystick_walk_lock, requests>>

\* 3. LINEAR KALMAN FILTER: "Calculate naive position as measurement"
KalmanMeasurement(t) ==
    /\ pc[t] = "kalman_meas"
    /\ frame' = [frame EXCEPT ![t].meas = MathProjection(positions.kalman, frame[t].yaw)]
    /\ Goto(t, "kalman_predict")
    /\ UNCHANGED <<fp_vars, mqtt_vars, jw_vars, query, walk, bf_vars, pf_vars, kf_vars, positions, trajectories,
                   stride_count, joystick_walk_lock, requests>>

KalmanPredict(t) ==
    /\ pc[t] = "kalman_predict"
    /\ LET after == kalman_predict(kalman_x, kalman_P)
       IN  /\ kalman_x' = after.x
           /\ kalman_P' = after.P
    /\ kf_calls' = Append(kf_calls, "predict")
    /\ Goto(t, "kalman_update")
    /\ UNCHANGED <<fp_vars, mqtt_vars, jw_vars, query, walk, bf_vars, pf_vars, positions, trajectories,
                   stride_count, frame, joystick_walk_lock, requests>>

\* KalmanUpdate on a filter that keeps its position in the Bayesian filter's estimate
KalmanUpdateSharedEstimate(t) ==
    /\ pc[t] = "kalman_update"
    /\ LET after == kalman_update(kalman_x, kalman_P, frame[t].meas)
       IN  /\ kalman_x' = after.x
           /\ kalman_P' = after.P
           /\ positions' = [positions EXCEPT !.kalman = kalman_get_position(after.x)]
           /\ current_estimate' = kalman_get_position(after.x)
    /\ kf_calls' = Append(kf_calls, "update")
    /\ trajectories' = Appended("kalman")
    /\ Goto(t, "particle")
    /\ UNCHANGED <<fp_vars, mqtt_vars, jw_vars, query, walk, position_history, current_covariance, call,
                   trajectory, n_calls, params, pf_vars, stride_count, frame,
                   joystick_walk_lock, requests>>

KalmanUpdate(t) ==
    /\ pc[t] = "kalman_update"
    /\ LET after == kalman_update(kalman_x, kalman_P, frame[t].meas)
       IN  /\ kalman_x' = after.x
           /\ kalman_P' = after.P
           /\ positions' = [positions EXCEPT !.kalman = kalman_get_position(after.x)]
    /\ kf_calls' = Append(kf_calls, "update")
    /\ trajectories' = Appended("kalman")
    /\ Goto(t, "particle")
    /\ UNCHANGED <<fp_vars, mqtt_vars, jw_vars, query, walk, bf_vars, pf_vars, stride_count, frame,
                   joystick_walk_lock, requests>>

\* 4. PARTICLE FILTER; an IndexError out of resample leaves the handler, nothing
\* appended and no stride counted
ParticleUpdateStride(t) ==
    /\ pc[t] = "particle"
    /\ update_stride(STRIDE_LENGTH, frame[t].yaw)
    /\ IF Raised(pf_call'.picked)
       THEN /\ Return(t)
            /\ joystick_walk_lock' = IF frame[t].handler = "joystick" THEN "free"
                                     ELSE joystick_walk_lock
            /\ UNCHANGED <<positions, trajectories>>
       ELSE /\ LET particle_pos == weighted_mean(particles', weights')
               IN  positions' = [positions EXCEPT
                                    !.particle = Pos(Round3(particle_pos.x),
                                                     Round3(particle_pos.y))]
            /\ trajectories' = Appended("particle")
            /\ Goto(t, "count")
            /\ UNCHANGED <<frame, joystick_walk_lock>>
    /\ UNCHANGED <<fp_vars, mqtt_vars, jw_vars, query, walk, bf_vars, kf_vars, stride_count,
                   requests>>

\* stride_count += 1: the load
CountLoad(t) ==
    /\ pc[t] = "count"
    /\ frame' = [frame EXCEPT ![t].count = stride_count]
    /\ Goto(t, "count_store")
    /\ UNCHANGED <<fp_vars, mqtt_vars, jw_vars, query, walk, bf_vars, pf_vars, kf_vars, positions, trajectories,
                   stride_count, joystick_walk_lock, requests>>

\* stride_count += 1: the store; then mock_test goes on with its next heading, the
\* joystick callback releases joystick_walk_lock, and the other handlers return
CountStore(t) ==
    /\ pc[t] = "count_store"
    /\ stride_count' = frame[t].count + 1
    /\ IF frame[t].handler = "mock_test" /\ frame[t].left > 1
       THEN /\ frame' = [frame EXCEPT
                            ![t].left = @ - 1,
                            ![t].yaw = test_headings[Len(test_headings) - frame[t].left + 2]]
            /\ Goto(t, "naive")
       ELSE Return(t)
    /\ joystick_walk_lock' = IF frame[t].handler = "joystick" THEN "free"
                             ELSE joystick_walk_lock
    /\ UNCHANGED <<fp_vars, mqtt_vars, jw_vars, query, walk, bf_vars, pf_vars, kf_vars, positions, trajectories,
                   requests>>

\* record_stride, algorithm == 'naive'
RecordNaive(t) ==
    /\ pc[t] = "rs_naive"
    /\ positions' = [positions EXCEPT
                        !.naive = NavigationProjection(positions.naive, frame[t].yaw)]
    /\ trajectories' = Appended("naive")
    /\ Goto(t, "count")
    /\ UNCHANGED <<fp_vars, mqtt_vars, jw_vars, query, walk, bf_vars, pf_vars, kf_vars, stride_count, frame,
                   joystick_walk_lock, requests>>

\* record_stride, algorithm == 'particle' (the placeholder)
RecordParticle(t) ==
    /\ pc[t] = "rs_particle"
    /\ positions' = [positions EXCEPT
                        !.particle = NavigationProjection(positions.particle, frame[t].yaw)]
    /\ trajectories' = Appended("particle")
    /\ Goto(t, "count")
    /\ UNCHANGED <<fp_vars, mqtt_vars, jw_vars, query, walk, bf_vars, pf_vars, kf_vars, stride_count, frame,
                   joystick_walk_lock, requests>>

\* reset: stride_count, positions, trajectories
ResetData(t) ==
    /\ pc[t] = "reset"
    /\ stride_count' = 0
    /\ positions' = AllAt(frame[t].start)
    /\ trajectories' = [a \in Algorithms |-> 0]
    /\ Goto(t, "reset_bayes")
    /\ UNCHANGED <<fp_vars, mqtt_vars, jw_vars, query, walk, bf_vars, pf_vars, kf_vars, frame,
                   joystick_walk_lock, requests>>

\* ResetBayes with a reset that builds the default floor plan anew
ResetBayesNewFloorPlan(t) ==
    /\ pc[t] = "reset_bayes"
    /\ reset(frame[t].start.x, frame[t].start.y)
    /\ floor_plan' = FloorPlanPDF(3500, 6000, 100)
    /\ Goto(t, "reset_kalman")
    /\ UNCHANGED <<mqtt_vars, jw_vars, query, walk, pf_vars, kf_vars, positions, trajectories,
                   stride_count, frame, joystick_walk_lock, requests>>

\* reset: bayesian_filter.reset(x=start_x, y=start_y)
ResetBayes(t) ==
    /\ pc[t] = "reset_bayes"
    /\ reset(frame[t].start.x, frame[t].start.y)
    /\ Goto(t, "reset_kalman")
    /\ UNCHANGED <<fp_vars, mqtt_vars, jw_vars, query, walk, pf_vars, kf_vars, positions, trajectories,
                   stride_count, frame, joystick_walk_lock, requests>>

\* set_start_position: positions
SetPositions(t) ==
    /\ pc[t] = "ssp"
    /\ positions' = AllAt(frame[t].start)
    /\ Goto(t, "ssp_bayes")
    /\ UNCHANGED <<fp_vars, mqtt_vars, jw_vars, query, walk, bf_vars, pf_vars, kf_vars, trajectories,
                   stride_count, frame, joystick_walk_lock, requests>>

\* set_start_position: bayesian_filter = BayesianNavigationFilter(...), then reset
NewBayes(t) ==
    /\ pc[t] = "ssp_bayes"
    /\ reset_keeps_nothing(frame[t].start.x, frame[t].start.y)
    /\ Goto(t, "reset_kalman")
    /\ UNCHANGED <<fp_vars, mqtt_vars, jw_vars, query, walk, pf_vars, kf_vars, positions, trajectories,
                   stride_count, frame, joystick_walk_lock, requests>>

\* kalman_filter = KalmanFilter(initial_x=start_x, initial_y=start_y, dt=0.5)
NewKalman(t) ==
    /\ pc[t] = "reset_kalman"
    /\ LET new == KalmanFilter(frame[t].start.x, frame[t].start.y)
       IN  /\ kalman_x' = new.x
           /\ kalman_P' = new.P
    /\ kf_calls' = <<>>
    /\ Goto(t, "reset_particle")
    /\ UNCHANGED <<fp_vars, mqtt_vars, jw_vars, query, walk, bf_vars, pf_vars, positions, trajectories,
                   stride_count, frame, joystick_walk_lock, requests>>

\* particle_filter = ParticleFilter(floor_plan, ..., initial_x=start_x, initial_y=start_y)
NewParticle(t) ==
    /\ pc[t] = "reset_particle"
    /\ ParticleFilter(n_particles, frame[t].start.x, frame[t].start.y)
    /\ Return(t)
    /\ UNCHANGED <<fp_vars, mqtt_vars, jw_vars, query, walk, bf_vars, kf_vars, pf_steps, positions, trajectories,
                   stride_count, joystick_walk_lock, requests>>

(***************************************************************************)
(* Specifications                                                          *)
(***************************************************************************)
\* no ParticleFilter constructed
NoParticleFilter ==
    /\ n_particles = 0
    /\ particles = <<>>
    /\ weights = <<>>
    /\ pf_call = PfCalled("none", 0, 0, <<>>, <<>>, <<>>, <<>>)
    /\ pf_steps = 0

\* ---- the MQTT clients: MalfunctionDetector and WindowedSubscriber ----
\* None: no excursion start, no reading in the message
None == -1

\* thresholds in degrees Celsius and percent; ALARM_DURATION in tenths of a second
HIGH_TEMP_THRESHOLD == 80
HIGH_MEMORY_THRESHOLD == 90
ALARM_DURATION == 100

MalfunctionDetector ==
    [high_temp_start |-> None, high_memory_start |-> None,
     temp_alarm_active |-> FALSE, memory_alarm_active |-> FALSE,
     message_count |-> 0, temp_alarms_triggered |-> 0, memory_alarms_triggered |-> 0]

\* check_high_temperature without its 'not self.temp_alarm_active' condition
check_high_temperature_every_reading(self, temperature, current_time) ==
    IF temperature > HIGH_TEMP_THRESHOLD
    THEN LET started == IF self.high_temp_start = None
                        THEN [self EXCEPT !.high_temp_start = current_time]
                        ELSE self
             duration == current_time - started.high_temp_start
         IN  IF duration >= ALARM_DURATION
             THEN [self |-> [started EXCEPT !.temp_alarm_active = TRUE,
                                            !.temp_alarms_triggered = @ + 1],
                   returned |-> TRUE]
             ELSE [self |-> started, returned |-> FALSE]
    ELSE [self |-> [self EXCEPT !.high_temp_start = None, !.temp_alarm_active = FALSE],
          returned |-> FALSE]

\* the detector after the check, and the value the check returns
check_high_temperature(self, temperature, current_time) ==
    IF temperature > HIGH_TEMP_THRESHOLD
    THEN LET started == IF self.high_temp_start = None
                        THEN [self EXCEPT !.high_temp_start = current_time]
                        ELSE self
             duration == current_time - started.high_temp_start
         IN  IF duration >= ALARM_DURATION /\ ~started.temp_alarm_active
             THEN [self |-> [started EXCEPT !.temp_alarm_active = TRUE,
                                            !.temp_alarms_triggered = @ + 1],
                   returned |-> TRUE]
             ELSE [self |-> started, returned |-> FALSE]
    ELSE [self |-> [self EXCEPT !.high_temp_start = None, !.temp_alarm_active = FALSE],
          returned |-> FALSE]

check_memory_exhaustion(self, memory_percent, current_time) ==
    IF memory_percent > HIGH_MEMORY_THRESHOLD
    THEN LET started == IF self.high_memory_start = None
                        THEN [self EXCEPT !.high_memory_start = current_time]
                        ELSE self
             duration == current_time - started.high_memory_start
         IN  IF duration >= ALARM_DURATION /\ ~started.memory_alarm_active
             THEN [self |-> [started EXCEPT !.memory_alarm_active = TRUE,
                                            !.memory_alarms_triggered = @ + 1],
                   returned |-> TRUE]
             ELSE [self |-> started, returned |-> FALSE]
    ELSE [self |-> [self EXCEPT !.high_memory_start = None, !.memory_alarm_active = FALSE],
          returned |-> FALSE]

\* what an observer of the readings knows about one rule: the last reading checked
\* and what the check returned, the time of the first reading of the current run of
\* readings above the threshold (None outside a run), the alarms returned during
\* that run, and the alarms returned since construction
NoRun == [value |-> None, returned |-> FALSE, run_start |-> None, run_alarms |-> 0,
          alarms |-> 0]

Observed(seen, value, threshold, now, returned) ==
    IF value > threshold
    THEN [value |-> value, returned |-> returned,
          run_start |-> IF seen.run_start = None THEN now ELSE seen.run_start,
          run_alarms |-> seen.run_alarms + (IF returned THEN 1 ELSE 0),
          alarms |-> seen.alarms + (IF returned THEN 1 ELSE 0)]
    ELSE [value |-> value, returned |-> returned, run_start |-> None, run_alarms |-> 0,
          alarms |-> seen.alarms + (IF returned THEN 1 ELSE 0)]

NoCheck == [temperature |-> NoRun, memory |-> NoRun]

\* MalfunctionDetector.on_message for a message carrying these readings (None: the
\* key is absent), received when time.time() is now
detector_on_message(temperature, memory_percent, now) ==
    LET counted == [detector EXCEPT !.message_count = @ + 1]
        rule1 == IF temperature # None
                 THEN check_high_temperature(counted, temperature, now)
                 ELSE [self |-> counted, returned |-> FALSE]
        rule2 == IF memory_percent # None
                 THEN check_memory_exhaustion(rule1.self, memory_percent, now)
                 ELSE [self |-> rule1.self, returned |-> FALSE]
    IN  /\ detector' = rule2.self
        /\ md_call' =
             [temperature |-> IF temperature # None
                              THEN Observed(md_call.temperature, temperature,
                                            HIGH_TEMP_THRESHOLD, now, rule1.returned)
                              ELSE [md_call.temperature EXCEPT !.value = None,
                                                               !.returned = FALSE],
              memory |-> IF memory_percent # None
                         THEN Observed(md_call.memory, memory_percent,
                                       HIGH_MEMORY_THRESHOLD, now, rule2.returned)
                         ELSE [md_call.memory EXCEPT !.value = None, !.returned = FALSE]]

\* window_seconds, in tenths of a second
window_seconds == 10

\* the buffers hold the timestamps of their (timestamp, value) pairs, oldest
\* arrival first
WindowedSubscriber ==
    [cpu_usage_buffer |-> <<>>, memory_usage_buffer |-> <<>>,
     temperature_buffer |-> <<>>, load_avg_buffer |-> <<>>, message_count |-> 0]

RECURSIVE cleanup_old_data(_, _)
cleanup_old_data(buffer, current_time) ==
    IF buffer # <<>> /\ buffer[1] < current_time - window_seconds
    THEN cleanup_old_data(Tail(buffer), current_time)
    ELSE buffer

\* WindowedSubscriber.on_message for a message stamped message_time, with or
\* without a temperature, whose 'system' part has a load_avg ("load_avg"), has
\* none ("no_load_avg") or is absent ("absent": data['system'] raises KeyError and
\* the except clause ends the handler), received when datetime.utcnow() is now
subscriber_on_message(message_time, has_temperature, system, now) ==
    LET appended ==
            [subscriber EXCEPT
                !.cpu_usage_buffer = Append(@, message_time),
                !.memory_usage_buffer = Append(@, message_time),
                !.temperature_buffer = IF has_temperature THEN Append(@, message_time) ELSE @,
                !.load_avg_buffer = IF system = "load_avg" THEN Append(@, message_time) ELSE @]
    IN  subscriber' =
            IF system = "absent"
            THEN appended
            ELSE [appended EXCEPT
                    !.cpu_usage_buffer = cleanup_old_data(@, now),
                    !.memory_usage_buffer = cleanup_old_data(@, now),
                    !.temperature_buffer = cleanup_old_data(@, now),
                    !.load_avg_buffer = cleanup_old_data(@, now),
                    !.message_count = @ + 1]

\* both clients constructed, no message received
MqttClients ==
    /\ clock = 0
    /\ detector = MalfunctionDetector
    /\ md_call = NoCheck
    /\ subscriber = WindowedSubscriber

NoQuery == [x |-> 0, y |-> 0, result |-> 0]

\* the threads serving /api/joystick_walk/start and /api/joystick_walk/stop
JwRequests == {"req1", "req2"}

\* the module-level state of web_dashboard_advanced after import, nobody calling
Dashboard ==
    /\ kalman_x = KalmanFilter(2000, 4000).x
    /\ kalman_P = KalmanFilter(2000, 4000).P
    /\ kf_calls = <<>>
    /\ positions = AllAt(Pos(2000, 4000))
    /\ trajectories = [a \in Algorithms |-> 0]
    /\ stride_count = 0
    /\ pc = [t \in Threads |-> "idle"]
    /\ frame = [t \in Threads |-> NoFrame]
    /\ joystick_walk_lock = "free"
    /\ requests = 0
    /\ walk = <<>>
    /\ joystick_walk_active = FALSE
    /\ joystick_walk_thread = 0
    /\ monitor_threads = <<>>
    /\ jw_pc = [r \in JwRequests |-> "idle"]

\* rooms as (width_m, height_m, resolution): the default room, the 10 x 10 m room
\* of test_wall_detection.py and of particle_filter.py's main, a 1 x 1 m room, and
\* the default room at coarser resolutions
DefaultRoom == <<3500, 6000, 100>>
TestRoom == <<10000, 10000, 100>>
Rooms == {DefaultRoom, TestRoom, <<1000, 1000, 100>>, <<3500, 6000, 250>>,
          <<3500, 6000, 500>>}

\* query coordinates: every QueryStep from QueryMargin steps outside an outer edge
\* to QueryDepth steps inside it, and the middle of the room
QueryStep == 50
QueryMargin == 3
QueryDepth == 9

QueryCoords(dim) ==
    {k * QueryStep : k \in (-QueryMargin)..QueryDepth}
    \cup {dim - k * QueryStep : k \in (-QueryMargin)..QueryDepth}
    \cup {dim \div 2}

\* ---- the floor plan queried from outside ----
FloorInit ==
    /\ \E room \in Rooms : floor_plan = FloorPlanPDF(room[1], room[2], room[3])
    /\ query = NoQuery
    /\ BayesInit
    /\ NoParticleFilter
    /\ Dashboard
    /\ MqttClients

Query ==
    \E x \in QueryCoords(floor_plan.width_m), y \in QueryCoords(floor_plan.height_m) :
        /\ query' = [x |-> x, y |-> y, result |-> get_probability(floor_plan, x, y)]
        /\ UNCHANGED <<fp_vars, mqtt_vars, jw_vars, kf_vars, web_vars, walk, bf_vars, pf_vars>>

FloorNext == Query

SpecFloor == FloorInit /\ [][FloorNext]_vars

\* ---- the Bayesian filter in the default room, any input ----
BayesInitIn(room) ==
    /\ floor_plan = FloorPlanPDF(room[1], room[2], room[3])
    /\ query = NoQuery
    /\ BayesInit
    /\ NoParticleFilter
    /\ Dashboard
    /\ MqttClients

MaxUpdates == 3

BayesHeadings == Headings \cup {NaN}
BayesStrides == {700, 0, -700, 7000}
BayesStarts == {Pos(2500, 4000), Pos(2900, 300), Pos(-500, 7000)}

Init == BayesInitIn(DefaultRoom)

Update ==
    \E heading \in BayesHeadings, stride_length \in BayesStrides :
        /\ n_calls < MaxUpdates
        /\ update(heading, stride_length)
        /\ UNCHANGED <<fp_vars, mqtt_vars, jw_vars, kf_vars, web_vars, walk, query, pf_vars>>

Reset ==
    \E pos \in BayesStarts :
        /\ reset(pos.x, pos.y)
        /\ UNCHANGED <<fp_vars, mqtt_vars, jw_vars, kf_vars, web_vars, walk, query, pf_vars>>

Next == Update \/ Reset

Spec == Init /\ [][Next]_vars

\* ---- the Bayesian filter on long walks north and east in the 10 x 10 m room ----
MaxHistUpdates == 12

HistHeadings == {"0", "pi/2"}
HistStart == Pos(2000, 500)

HistInit == BayesInitIn(TestRoom)

HistUpdate ==
    \E heading \in HistHeadings :
        /\ n_calls < MaxHistUpdates
        /\ update(heading, 700)
        /\ UNCHANGED <<fp_vars, mqtt_vars, jw_vars, kf_vars, web_vars, walk, query, pf_vars>>

HistReset ==
    /\ reset(HistStart.x, HistStart.y)
    /\ UNCHANGED <<fp_vars, mqtt_vars, jw_vars, kf_vars, web_vars, walk, query, pf_vars>>

HistNext == HistUpdate \/ HistReset

SpecHist == HistInit /\ [][HistNext]_vars

\* ---- test_wall_detection.py: reset(2.0, 5.0), then heading 0, stride 0.7 ----
MaxWalkUpdates == 11

WalkStart == Pos(2000, 5000)

WalkInit == BayesInitIn(TestRoom)

WalkUpdate ==
    /\ n_calls < MaxWalkUpdates
    /\ update("0", 700)
    /\ UNCHANGED <<fp_vars, mqtt_vars, jw_vars, kf_vars, web_vars, walk, query, pf_vars>>

WalkReset ==
    /\ reset(WalkStart.x, WalkStart.y)
    /\ UNCHANGED <<fp_vars, mqtt_vars, jw_vars, kf_vars, web_vars, walk, query, pf_vars>>

WalkNext == WalkUpdate \/ WalkReset

SpecWalk == WalkInit /\ [][WalkNext]_vars

\* ---- the particle filter in the default room ----
MaxPfSteps == 2

ParticleCounts == {1, 2, 3}
PfHeadings == {"pi/2", "pi"}
PfStarts == {Pos(2000, 4000), Pos(2800, 5000)}

PfInit ==
    /\ floor_plan = FloorPlanPDF(DefaultRoom[1], DefaultRoom[2], DefaultRoom[3])
    /\ query = NoQuery
    /\ BayesInit
    /\ Dashboard
    /\ MqttClients
    /\ pf_steps = 0
    /\ pf_call = PfCalled("init", 2000, 4000, <<>>, <<>>, <<>>, <<>>)
    /\ \E n \in ParticleCounts : \E noise \in [1..n -> InitNoise] :
          /\ n_particles = n
          /\ particles = [i \in 1..n |-> [x |-> 2000 + noise[i].x, y |-> 4000 + noise[i].y]]
          /\ weights = Uniform(n)

PfUpdateStride ==
    \E heading \in PfHeadings :
        /\ pf_steps < MaxPfSteps
        /\ update_stride(700, heading)
        /\ UNCHANGED <<fp_vars, mqtt_vars, jw_vars, kf_vars, web_vars, walk, query, bf_vars>>

\* /api/reset and /api/set_start_position build a new ParticleFilter
PfReset ==
    \E pos \in PfStarts :
        /\ ParticleFilter(n_particles, pos.x, pos.y)
        /\ UNCHANGED <<fp_vars, mqtt_vars, jw_vars, kf_vars, web_vars, walk, query, bf_vars, pf_steps>>

PfNext == PfUpdateStride \/ PfReset

SpecParticle == PfInit /\ [][PfNext]_vars

\* ---- the dashboard: its handlers running in threads of their own ----
MaxRequests == 2
MockTestStrides == 2
FacadeParticles == 1

FacadeHeadings == {"0", "pi/2"}
FacadeStarts == {Pos(5000, 5000)}

FacadeInit ==
    /\ floor_plan = FloorPlanPDF(TestRoom[1], TestRoom[2], TestRoom[3])
    /\ query = NoQuery
    /\ BayesInit
    /\ Dashboard
    /\ MqttClients
    /\ pf_steps = 0
    /\ pf_call = PfCalled("init", 2000, 4000, <<>>, <<>>, <<>>, <<>>)
    /\ n_particles = FacadeParticles
    /\ \E noise \in [1..FacadeParticles -> InitNoise] :
          particles = [i \in 1..FacadeParticles |->
                          [x |-> 2000 + noise[i].x, y |-> 4000 + noise[i].y]]
    /\ weights = Uniform(FacadeParticles)

\* a request arrives, or the button is pressed: the thread enters its handler
Enter(t, handler, yaw, loc) ==
    /\ pc[t] = "idle"
    /\ requests < MaxRequests
    /\ requests' = requests + 1
    /\ frame' = [frame EXCEPT ![t] = [NoFrame EXCEPT !.handler = handler, !.yaw = yaw,
                                                     !.start = Pos(2000, 4000)]]
    /\ Goto(t, loc)
    /\ UNCHANGED <<fp_vars, mqtt_vars, jw_vars, query, walk, bf_vars, pf_vars, kf_vars, positions, trajectories,
                   stride_count, joystick_walk_lock>>

manual_stride(t) ==
    /\ t \in HttpThreads
    /\ \E heading \in FacadeHeadings : Enter(t, "manual_stride", heading, "naive")

mock_test(t) ==
    /\ t \in HttpThreads
    /\ pc[t] = "idle"
    /\ requests < MaxRequests
    /\ requests' = requests + 1
    /\ frame' = [frame EXCEPT ![t] = [NoFrame EXCEPT !.handler = "mock_test",
                                                     !.yaw = test_headings[1],
                                                     !.left = MockTestStrides]]
    /\ Goto(t, "naive")
    /\ UNCHANGED <<fp_vars, mqtt_vars, jw_vars, query, walk, bf_vars, pf_vars, kf_vars, positions, trajectories,
                   stride_count, joystick_walk_lock>>

record_stride(t) ==
    /\ t \in HttpThreads
    /\ \E algorithm \in Algorithms, yaw \in FacadeHeadings :
          Enter(t, "record_stride", yaw,
                CASE algorithm = "naive" -> "rs_naive"
                  [] algorithm = "bayesian" -> "bayes"
                  [] algorithm = "particle" -> "rs_particle"
                  [] OTHER -> "count")

reset_all(t) ==
    /\ t \in HttpThreads
    /\ Enter(t, "reset", "-", "reset")

set_start_position(t) ==
    /\ t \in HttpThreads
    /\ pc[t] = "idle"
    /\ requests < MaxRequests
    /\ requests' = requests + 1
    /\ \E start \in FacadeStarts :
          frame' = [frame EXCEPT ![t] = [NoFrame EXCEPT !.handler = "set_start_position",
                                                        !.start = start]]
    /\ Goto(t, "ssp")
    /\ UNCHANGED <<fp_vars, mqtt_vars, jw_vars, query, walk, bf_vars, pf_vars, kf_vars, positions, trajectories,
                   stride_count, joystick_walk_lock>>

\* handle_joystick_middle_button: with joystick_walk_lock, read the heading
handle_joystick_middle_button(t) ==
    /\ t = "joystick"
    /\ joystick_walk_lock = "free"
    /\ pc[t] = "idle"
    /\ requests < MaxRequests
    /\ requests' = requests + 1
    /\ joystick_walk_lock' = t
    /\ \E heading_rad \in FacadeHeadings :
          frame' = [frame EXCEPT ![t] = [NoFrame EXCEPT !.handler = "joystick",
                                                        !.yaw = heading_rad]]
    /\ Goto(t, "naive")
    /\ UNCHANGED <<fp_vars, mqtt_vars, jw_vars, query, walk, bf_vars, pf_vars, kf_vars, positions, trajectories,
                   stride_count>>

FacadeStep(t) ==
    \/ manual_stride(t)
    \/ mock_test(t)
    \/ record_stride(t)
    \/ reset_all(t)
    \/ set_start_position(t)
    \/ handle_joystick_middle_button(t)
    \/ Naive(t)
    \/ BayesBegin(t)
    \/ BayesCommit(t)
    \/ KalmanMeasurement(t)
    \/ KalmanPredict(t)
    \/ KalmanUpdate(t)
    \/ ParticleUpdateStride(t)
    \/ CountLoad(t)
    \/ CountStore(t)
    \/ RecordNaive(t)
    \/ RecordParticle(t)
    \/ ResetData(t)
    \/ ResetBayes(t)
    \/ SetPositions(t)
    \/ NewBayes(t)
    \/ NewKalman(t)
    \/ NewParticle(t)

FacadeNext == \E t \in Threads : FacadeStep(t)

SpecFacade == FacadeInit /\ [][FacadeNext]_vars

\* ---- bayesian_filter.py run as a program: the 20 x 10 m room, strides of 0.7 m ----
MaxDemoUpdates == 10

DemoRoom == <<20000, 10000, 100>>
DemoHeadings == {"0", "pi/2"}

DemoInit == BayesInitIn(DemoRoom)

DemoUpdate ==
    \E heading \in DemoHeadings :
        /\ n_calls < MaxDemoUpdates
        /\ update(heading, 700)
        /\ walk' = Append(walk, heading)
        /\ UNCHANGED <<fp_vars, mqtt_vars, jw_vars, kf_vars, web_vars, query, pf_vars>>

DemoNext == DemoUpdate

SpecDemo == DemoInit /\ [][DemoNext]_vars

\* ---- the malfunction detector receiving messages ----
MaxMessages == 6

MessageGaps == {50, 100}
Temperatures == {None, 80, 81}
MemoryPercents == {None, 90, 95}

DetectorInit == BayesInitIn(DefaultRoom)

DetectorMessage ==
    \E gap \in MessageGaps, temperature \in Temperatures, memory_percent \in MemoryPercents :
        /\ detector.message_count < MaxMessages
        /\ clock' = clock + gap
        /\ detector_on_message(temperature, memory_percent, clock + gap)
        /\ UNCHANGED <<fp_vars, jw_vars, kf_vars, web_vars, walk, query, bf_vars, pf_vars,
                       subscriber>>

DetectorNext == DetectorMessage

SpecDetector == DetectorInit /\ [][DetectorNext]_vars

\* ---- the windowed subscriber receiving messages ----
\* messages arrive until the clock reaches WindowHorizon
WindowHorizon == 40

ArrivalGaps == {10, 20}
\* how long before its arrival a message was stamped by the publisher
Delays == {0, 15}
SystemParts == {"load_avg", "no_load_avg", "absent"}

WindowInit == BayesInitIn(DefaultRoom)

WindowMessage ==
    \E gap \in ArrivalGaps, delay \in Delays, has_temperature \in BOOLEAN,
       system \in SystemParts :
        /\ clock + gap <= WindowHorizon
        /\ clock' = clock + gap
        /\ subscriber_on_message(clock + gap - delay, has_temperature, system, clock + gap)
        /\ UNCHANGED <<fp_vars, jw_vars, kf_vars, web_vars, walk, query, bf_vars, pf_vars,
                       detector, md_call>>

WindowNext == WindowMessage

SpecWindow == WindowInit /\ [][WindowNext]_vars

\* ---- one update call statement by statement: the wall scan, the iterations of
\* L-BFGS-B, the commit ----
MaxStepUpdates == 2

\* the iteration limit of L-BFGS-B: update passes no options, so scipy's default
\* maxiter applies (15000; here 3); the same limit stands for maxfun
maxiter == 3

Caller == "http1"

StepStrides == {700, 7000}

StepInit == BayesInitIn(DefaultRoom)

\* the locals of update: the arguments, the index i of the wall scan, the starting
\* point x0, and the count k and current point x of the optimizer's iterations
Locals(heading, stride_length, i, x0, k, x) ==
    [heading |-> heading, stride_length |-> stride_length, i |-> i, x0 |-> x0, k |-> k,
     x |-> x]

\* update(heading, stride_length) is called
UpdateCall ==
    \E heading \in BayesHeadings, stride_length \in StepStrides :
        /\ pc[Caller] = "idle"
        /\ n_calls < MaxStepUpdates
        /\ n_calls' = n_calls + 1
        /\ frame' = [frame EXCEPT ![Caller] = Locals(heading, stride_length, 1, current_estimate,
                                                     0, current_estimate)]
        /\ Goto(Caller, "scan")
        /\ UNCHANGED <<fp_vars, mqtt_vars, jw_vars, kf_vars, pf_vars, query, walk,
                       current_estimate, position_history, current_covariance, call,
                       trajectory, params, positions, trajectories, stride_count,
                       joystick_walk_lock, requests>>

\* one turn of 'for i in range(1, n_samples + 1)': one floor-plan query, then the
\* break, the end of the loop, or the next turn; a NaN sample raises ValueError
ScanStep(t) ==
    LET f == frame[t]
        x_prev == current_estimate.x
        y_prev == current_estimate.y
        imu == imu_prediction(x_prev, y_prev, f.heading, f.stride_length)
        s == SamplePoint(x_prev, y_prev, imu.x, imu.y, f.i)
    IN  /\ pc[t] = "scan"
        /\ IF f.heading = NaN
           THEN /\ call' = Called("update", f.heading, f.stride_length, x_prev, y_prev,
                                  "ValueError")
                /\ Return(t)
           ELSE /\ IF get_probability(floor_plan, s.x, s.y) < WALL_THRESHOLD
                   THEN /\ frame' = [frame EXCEPT ![t].x0 = current_estimate,
                                                  ![t].x = Project(floor_plan, current_estimate)]
                        /\ Goto(t, "minimize")
                   ELSE IF f.i = n_samples
                        THEN /\ frame' = [frame EXCEPT ![t].x0 = imu,
                                                       ![t].x = Project(floor_plan, imu)]
                             /\ Goto(t, "minimize")
                        ELSE /\ frame' = [frame EXCEPT ![t].i = f.i + 1]
                             /\ UNCHANGED pc
                /\ UNCHANGED call
        /\ UNCHANGED <<fp_vars, mqtt_vars, jw_vars, kf_vars, pf_vars, query, walk,
                       current_estimate, position_history, current_covariance,
                       trajectory, n_calls, params, positions, trajectories, stride_count,
                       joystick_walk_lock, requests>>

\* one iteration of L-BFGS-B whose count never reaches the limit
IterateStepCountWraps(t) ==
    LET f == frame[t]
        objective(pos) == negative_posterior(floor_plan, current_estimate, pos,
                                             current_estimate.x, current_estimate.y,
                                             f.heading, f.stride_length)
    IN  /\ pc[t] = "minimize"
        /\ \/ /\ Goto(t, "commit")
              /\ UNCHANGED frame
           \/ /\ \E pos \in Iterates(floor_plan, f.x0, current_estimate.x, current_estimate.y) :
                    /\ objective(pos) <= objective(f.x)
                    /\ frame' = [frame EXCEPT ![t].x = pos, ![t].k = (f.k + 1) % maxiter]
              /\ UNCHANGED pc
        /\ UNCHANGED <<fp_vars, mqtt_vars, jw_vars, kf_vars, pf_vars, bf_vars, query, walk,
                       positions, trajectories, stride_count, joystick_walk_lock, requests>>

\* one iteration of L-BFGS-B: it stops at the iteration limit; below the limit it
\* either finds its convergence test met and stops, or moves to a point where the
\* objective is no higher and counts the iteration
IterateStep(t) ==
    LET f == frame[t]
        objective(pos) == negative_posterior(floor_plan, current_estimate, pos,
                                             current_estimate.x, current_estimate.y,
                                             f.heading, f.stride_length)
    IN  /\ pc[t] = "minimize"
        /\ IF f.k >= maxiter
           THEN /\ Goto(t, "commit")
                /\ UNCHANGED frame
           ELSE \/ /\ Goto(t, "commit")
                   /\ UNCHANGED frame
                \/ /\ \E pos \in Iterates(floor_plan, f.x0, current_estimate.x,
                                           current_estimate.y) :
                         /\ objective(pos) <= objective(f.x)
                         /\ frame' = [frame EXCEPT ![t].x = pos, ![t].k = f.k + 1]
                   /\ UNCHANGED pc
        /\ UNCHANGED <<fp_vars, mqtt_vars, jw_vars, kf_vars, pf_vars, bf_vars, query, walk,
                       positions, trajectories, stride_count, joystick_walk_lock, requests>>

\* update, from "Extract estimate" to the return
CommitStep(t) ==
    /\ pc[t] = "commit"
    /\ commit(frame[t].x, frame[t].heading, frame[t].stride_length, frame[t].x0)
    /\ Return(t)
    /\ UNCHANGED <<fp_vars, mqtt_vars, jw_vars, kf_vars, pf_vars, query, walk, n_calls, params,
                   positions, trajectories, stride_count, joystick_walk_lock, requests>>

StepNext == UpdateCall \/ ScanStep(Caller) \/ IterateStep(Caller) \/ CommitStep(Caller)

SpecStep == StepInit /\ [][StepNext]_vars

\* the thread that called update keeps running until update returns
SpecStepFair ==
    /\ SpecStep
    /\ WF_vars(ScanStep(Caller))
    /\ WF_vars(IterateStep(Caller))
    /\ WF_vars(CommitStep(Caller))

\* ---- the joystick monitor thread, started and stopped by requests ----
MaxMonitors == 2

JoystickInit == BayesInitIn(DefaultRoom)

JwGoto(r, loc) == jw_pc' = [jw_pc EXCEPT ![r] = loc]

\* threads created whose joystick_walk_monitor has not returned
Alive == {i \in 1..Len(monitor_threads) : monitor_threads[i] # "returned"}

\* start_joystick_walk: 'if joystick_walk_active: return' refuses
StartCheck(r) ==
    /\ jw_pc[r] = "idle"
    /\ Len(monitor_threads) + Cardinality({q \in JwRequests : jw_pc[q] \in {"start_set", "start_thread"}})
          < MaxMonitors
    /\ JwGoto(r, IF joystick_walk_active THEN "refused" ELSE "start_set")
    /\ UNCHANGED <<fp_vars, mqtt_vars, kf_vars, web_vars, walk, query, bf_vars, pf_vars,
                   joystick_walk_active, joystick_walk_thread, monitor_threads>>

\* joystick_walk_active = True
StartSet(r) ==
    /\ jw_pc[r] = "start_set"
    /\ joystick_walk_active' = TRUE
    /\ JwGoto(r, "start_thread")
    /\ UNCHANGED <<fp_vars, mqtt_vars, kf_vars, web_vars, walk, query, bf_vars, pf_vars,
                   joystick_walk_thread, monitor_threads>>

\* joystick_walk_thread = threading.Thread(target=joystick_walk_monitor); start()
StartThread(r) ==
    /\ jw_pc[r] = "start_thread"
    /\ monitor_threads' = Append(monitor_threads, "register")
    /\ joystick_walk_thread' = Len(monitor_threads) + 1
    /\ JwGoto(r, "idle")
    /\ UNCHANGED <<fp_vars, mqtt_vars, kf_vars, web_vars, walk, query, bf_vars, pf_vars,
                   joystick_walk_active>>

\* stop_joystick_walk: 'if not joystick_walk_active: return' refuses
StopCheck(r) ==
    /\ jw_pc[r] = "idle"
    /\ JwGoto(r, IF joystick_walk_active THEN "stop_set" ELSE "refused")
    /\ UNCHANGED <<fp_vars, mqtt_vars, kf_vars, web_vars, walk, query, bf_vars, pf_vars,
                   joystick_walk_active, joystick_walk_thread, monitor_threads>>

\* joystick_walk_active = False
StopSet(r) ==
    /\ jw_pc[r] = "stop_set"
    /\ joystick_walk_active' = FALSE
    /\ JwGoto(r, "stop_join")
    /\ UNCHANGED <<fp_vars, mqtt_vars, kf_vars, web_vars, walk, query, bf_vars, pf_vars,
                   joystick_walk_thread, monitor_threads>>

\* joystick_walk_thread.join(timeout=2.0) returns when the thread has ended or
\* the timeout has passed
StopJoin(r) ==
    /\ jw_pc[r] = "stop_join"
    /\ JwGoto(r, "idle")
    /\ UNCHANGED <<fp_vars, mqtt_vars, kf_vars, web_vars, walk, query, bf_vars, pf_vars,
                   joystick_walk_active, joystick_walk_thread, monitor_threads>>

\* the refusing return of either handler
Refused(r) ==
    /\ jw_pc[r] = "refused"
    /\ JwGoto(r, "idle")
    /\ UNCHANGED <<fp_vars, mqtt_vars, kf_vars, web_vars, walk, query, bf_vars, pf_vars,
                   joystick_walk_active, joystick_walk_thread, monitor_threads>>

\* joystick_walk_monitor: registers the button handler and enters its loop
MonitorRegister(i) ==
    /\ monitor_threads[i] = "register"
    /\ monitor_threads' = [monitor_threads EXCEPT ![i] = "loop"]
    /\ UNCHANGED <<fp_vars, mqtt_vars, kf_vars, web_vars, walk, query, bf_vars, pf_vars,
                   joystick_walk_active, joystick_walk_thread, jw_pc>>

\* 'while joystick_walk_active:' read after a sleep of 0.1 s and found False
MonitorLeave(i) ==
    /\ monitor_threads[i] = "loop"
    /\ ~joystick_walk_active
    /\ monitor_threads' = [monitor_threads EXCEPT ![i] = "unregister"]
    /\ UNCHANGED <<fp_vars, mqtt_vars, kf_vars, web_vars, walk, query, bf_vars, pf_vars,
                   joystick_walk_active, joystick_walk_thread, jw_pc>>

\* sense.stick.direction_middle = None, and the thread ends
MonitorReturn(i) ==
    /\ monitor_threads[i] = "unregister"
    /\ monitor_threads' = [monitor_threads EXCEPT ![i] = "returned"]
    /\ UNCHANGED <<fp_vars, mqtt_vars, kf_vars, web_vars, walk, query, bf_vars, pf_vars,
                   joystick_walk_active, joystick_walk_thread, jw_pc>>

JoystickNext ==
    \/ \E r \in JwRequests :
          \/ StartCheck(r)
          \/ StartSet(r)
          \/ StartThread(r)
          \/ StopCheck(r)
          \/ StopSet(r)
          \/ StopJoin(r)
          \/ Refused(r)
    \/ \E i \in 1..Len(monitor_threads) :
          \/ MonitorRegister(i)
          \/ MonitorLeave(i)
          \/ MonitorReturn(i)

SpecJoystick == JoystickInit /\ [][JoystickNext]_vars

(***************************************************************************)
(* Claims about the floor plan (SpecFloor)                                 *)
(***************************************************************************)
Queried == query.result # 0

StrictlyInside(fp, x, y) ==
    /\ wall_thickness < x /\ x < fp.width_m - wall_thickness
    /\ wall_thickness < y /\ y < fp.height_m - wall_thickness

OutsideRoom(fp, x, y) ==
    x < 0 \/ x > fp.width_m \/ y < 0 \/ y > fp.height_m

InWallBand(fp, x, y) ==
    /\ ~OutsideRoom(fp, x, y)
    /\ \/ x < wall_thickness \/ fp.width_m - x < wall_thickness
       \/ y < wall_thickness \/ fp.height_m - y < wall_thickness

\* C9: in every room and at every resolution, get_probability returns 1.0 at
\* every point strictly inside [t, W - t] x [t, H - t], t = 0.3.
C9_InteriorIsWalkable ==
    (Queried /\ StrictlyInside(floor_plan, query.x, query.y))
        => query.result = WALKABLE_P

\* C10: in every room and at every resolution, get_probability returns 0.01 at
\* every point of the wall band (closer than t = 0.3 to an outer edge) and at
\* every point outside [0, W] x [0, H].
C10_WallBandAndOutsideAreWall ==
    (Queried /\ (InWallBand(floor_plan, query.x, query.y)
                 \/ OutsideRoom(floor_plan, query.x, query.y)))
        => query.result = WALL_P

(***************************************************************************)
(* Claims about the Bayesian filter                                        *)
(***************************************************************************)
Walkable(fp, pos) == get_probability(fp, pos.x, pos.y) = WALKABLE_P

Committed == SubSeq(trajectory, 2, Len(trajectory))

UpdateReturned == call.op = "update" /\ call.outcome = "returned"

\* the step is an update call
UpdateStep == n_calls' = n_calls + 1

ImuPoint(prev, heading, stride_length) ==
    [x |-> prev.x + RoundDiv(stride_length * Sin1000(heading), 1000),
     y |-> prev.y + RoundDiv(stride_length * Cos1000(heading), 1000)]

\* the last update started at the position before the newest one of the trajectory
PrevOfLastUpdate == trajectory[Len(trajectory) - 1]

LastUpdateCrossedWall ==
    /\ UpdateReturned
    /\ LET prev == PrevOfLastUpdate
           imu == ImuPoint(prev, call.heading, call.stride)
       IN  path_crosses_wall(floor_plan, prev.x, prev.y, imu.x, imu.y)

\* C1: in the built-in room, an update that starts from a walkable committed
\* position commits a walkable position, whatever the heading and the stride: no
\* update commits a position whose floor-plan probability is below 0.1.
C1_WallsAreHard ==
    [][(UpdateStep /\ Walkable(floor_plan, current_estimate))
           => /\ Walkable(floor_plan, current_estimate')
              /\ get_probability(floor_plan, current_estimate'.x, current_estimate'.y)
                    >= WALL_THRESHOLD]_vars

\* an update whose heading pointed into a wall started and ended on walkable floor
C1_Witness ==
    /\ LastUpdateCrossedWall
    /\ call.stride = 700
    /\ Walkable(floor_plan, PrevOfLastUpdate)
    /\ Walkable(floor_plan, current_estimate)

\* C2: in the 10 x 10 m room, after reset(2.0, 5.0), updates with heading 0 and
\* stride 0.7 never commit a position with x >= 5.3.
C2_NeverBeyondX53 ==
    trajectory[1] = WalkStart
        => \A i \in 2..Len(trajectory) : trajectory[i].x < 5300

\* C3: after every update the committed estimate lies in
\* [0, width_m] x [0, height_m].
C3_EstimateInBounds ==
    UpdateReturned => InBox(floor_plan, current_estimate)

\* an update returned whose forward-projected point or whose previous position
\* lay outside the floor plan
C3_Witness ==
    /\ UpdateReturned
    /\ InBox(floor_plan, current_estimate)
    /\ \/ ~InBox(floor_plan, ImuPoint(PrevOfLastUpdate, call.heading, call.stride))
       \/ ~InBox(floor_plan, PrevOfLastUpdate)

InvalidInput(c) == c.op = "update" /\ (c.stride <= 0 \/ c.heading = NaN)

\* C4: an update call with stride_length <= 0 or a NaN heading fails, and leaves
\* the committed estimate and the position history as they were.
C4_InvalidInputRejected ==
    [][(UpdateStep /\ InvalidInput(call'))
           => /\ call'.outcome # "returned"
              /\ UNCHANGED <<current_estimate, position_history>>]_vars

LastN(seq, n) == SubSeq(seq, Len(seq) - n + 1, Len(seq))

\* C6: after k updates since construction or the last reset, position_history is
\* the min(k, 10) most recently committed estimates, in commit order.
C6_HistoryIsLastTen ==
    position_history = LastN(Committed, Min(Len(Committed), HISTORY_LIMIT))

\* an 11th and a 12th estimate were committed: the oldest entries were evicted
C6_Witness ==
    /\ Len(Committed) > HISTORY_LIMIT + 1
    /\ Len(position_history) = HISTORY_LIMIT
    /\ position_history[1] # Committed[1]

\* C7: right after reset(x, y) the estimate is (x, y), the history is empty and
\* the covariance is the one __init__ sets: the state of a freshly constructed
\* filter placed at (x, y).  The state after reset depends on (x, y) only, so a
\* second reset(x, y) gives the same state.
C7_ResetGivesFreshState ==
    call.op = "reset"
        => /\ current_estimate = [x |-> call.x, y |-> call.y]
           /\ position_history = <<>>
           /\ current_covariance = INITIAL_COVARIANCE

\* a reset arrived after at least one update had been committed
C7_Witness ==
    /\ call.op = "reset"
    /\ n_calls > 0
    /\ current_estimate # [x |-> 2000, y |-> 4000]

(***************************************************************************)
(* Claims about the particle filter (SpecParticle)                         *)
(***************************************************************************)
\* C5: whatever the particle count and the calls made, the filter holds
\* n_particles particles and n_particles weights, no weight is negative and the
\* weights sum to 1.
C5_WeightsNormalised ==
    /\ Len(particles) = n_particles
    /\ Len(weights) = n_particles
    /\ \A i \in 1..Len(weights) : weights[i].num >= 0 /\ weights[i].den > 0
    /\ RatSum(weights) = Rat(1, 1)

AllInWalls ==
    \A i \in 1..Len(particles) :
        get_probability(floor_plan, particles[i].x, particles[i].y) = WALL_P

\* update_stride has left unequal weights behind, and every particle has left the
\* walkable region
C5_Witness ==
    /\ pf_call.op = "update_stride"
    /\ n_particles = 3
    /\ weights[1] # weights[2]
    /\ AllInWalls

\* The facade has re-constructed the filter after update_stride calls were made
AfterReset == pf_call.op = "init" /\ pf_steps > 0

RECURSIVE SumCoord(_, _)
SumCoord(vals, k) == IF k = 0 THEN 0 ELSE SumCoord(vals, k - 1) + vals[k]

\* C8 (as stated): right after the facade resets the filter to p, get_position
\* returns exactly p, with n_particles particles and uniform weights 1/N.
C8_ResetReturnsExactlyP ==
    AfterReset
        => /\ get_position = [x |-> Rat(pf_call.x, 1), y |-> Rat(pf_call.y, 1)]
           /\ Len(particles) = n_particles
           /\ \A i \in 1..Len(weights) : weights[i] = Rat(1, n_particles)

\* C8 (amended): right after the facade resets the filter to p, there are
\* n_particles particles, each at p plus its own initial noise, all weights are
\* 1/N, and get_position returns the arithmetic mean of the particles.
C8_ResetReturnsParticleMean ==
    AfterReset
        => /\ Len(particles) = n_particles
           /\ Len(weights) = n_particles
           /\ \A i \in 1..Len(weights) : weights[i] = Rat(1, n_particles)
           /\ \A i \in 1..Len(particles) :
                  Pos(particles[i].x - pf_call.x, particles[i].y - pf_call.y) \in InitNoise
           /\ RatMul(Rat(n_particles, 1), get_position.x)
                  = Rat(SumCoord([i \in 1..Len(particles) |-> particles[i].x], Len(particles)), 1)
           /\ RatMul(Rat(n_particles, 1), get_position.y)
                  = Rat(SumCoord([i \in 1..Len(particles) |-> particles[i].y], Len(particles)), 1)

\* a reset after update_stride calls whose particle mean is not p
C8_Witness ==
    /\ AfterReset
    /\ n_particles = 3
    /\ get_position # [x |-> Rat(pf_call.x, 1), y |-> Rat(pf_call.y, 1)]

(***************************************************************************)
(* Claims about the dashboard (SpecFacade)                                 *)
(***************************************************************************)
\* thread t executes the statement at loc in this step
Executes(t, loc) == pc[t] = loc /\ pc'[t] # loc

\* C11: in every stride event that process_stride_all_algorithms handles, the
\* naive projection and the measurement fed to the Kalman filter are the previous
\* position plus (stride*sin(heading), stride*cos(heading)), the forward
\* projection of the Bayesian filter.
C11_SameNavigationConvention ==
    [][\A t \in Threads :
          /\ Executes(t, "naive")
                => positions'.naive = imu_prediction(positions.naive.x, positions.naive.y,
                                                     frame[t].yaw, STRIDE_LENGTH)
          /\ Executes(t, "kalman_meas")
                => frame'[t].meas = imu_prediction(positions.kalman.x, positions.kalman.y,
                                                   frame[t].yaw, STRIDE_LENGTH)]_vars

\* C12: the calls made on the Kalman filter strictly alternate predict, update,
\* predict, update, beginning with predict: no update without the predict of its
\* own stride before it, and no two predicts in a row.
C12_PredictUpdateAlternate ==
    \A i \in 1..Len(kf_calls) :
        kf_calls[i] = (IF i % 2 = 1 THEN "predict" ELSE "update")

\* thread t has called bayesian_filter.update and update has not returned
InBayesUpdate(t) == pc[t] = "bayes_commit"

\* thread t begins an update or a reset of the Bayesian filter in this step
BeginsBayesCall(t) ==
    Executes(t, "bayes") \/ Executes(t, "reset_bayes") \/ Executes(t, "ssp_bayes")

\* C13: the paths that drive the estimators are serialized: when a thread begins
\* an update or a reset of the Bayesian filter, no other thread is inside an
\* update of it.
C13_EstimatorCallsSerialized ==
    [][\A t \in Threads :
          BeginsBayesCall(t) => \A u \in Threads \ {t} : ~InBayesUpdate(u)]_vars

\* the state each estimator owns
bayes_state == <<current_estimate, position_history, current_covariance>>
kalman_state == <<kalman_x, kalman_P>>
particle_state == <<particles, weights>>

\* thread t executes an operation of the Bayesian, Kalman or particle filter
BayesOp(t) ==
    Executes(t, "bayes") \/ Executes(t, "bayes_commit") \/ BeginsBayesCall(t)

KalmanOp(t) ==
    Executes(t, "kalman_predict") \/ Executes(t, "kalman_update") \/ Executes(t, "reset_kalman")

ParticleOp(t) == Executes(t, "particle") \/ Executes(t, "reset_particle")

\* C14: an update or reset of one estimator leaves the state of the other two
\* unchanged: a Bayesian update or reset changes neither the Kalman state and
\* covariance nor the particles and weights, a Kalman predict/update changes
\* neither the Bayesian estimate and history nor the particles, a particle
\* update_stride changes neither the Bayesian nor the Kalman state.
C14_EstimatorsOwnDisjointState ==
    [][\A t \in Threads :
          /\ BayesOp(t) => UNCHANGED <<kalman_state, particle_state>>
          /\ KalmanOp(t) => UNCHANGED <<bayes_state, particle_state>>
          /\ ParticleOp(t) => UNCHANGED <<bayes_state, kalman_state>>]_vars

\* one stride has gone through all three estimators and each holds an estimate
\* of its own
C14_Witness ==
    /\ n_calls > 0 /\ kf_calls = <<"predict", "update">> /\ pf_steps > 0
    /\ current_estimate # kalman_get_position(kalman_x)
    /\ Pos(Round3(get_position.x), Round3(get_position.y)) # current_estimate
    /\ Pos(Round3(get_position.x), Round3(get_position.y)) # kalman_get_position(kalman_x)

\* C15: the floor plan is read-only after construction: no step of any handler,
\* with the probability queries, Bayesian updates and resets and particle
\* predict/reweight/resample it makes, changes the grid, the dimensions or the
\* resolution.
C15_FloorPlanReadOnly ==
    [][/\ floor_plan'.grid = floor_plan.grid
       /\ floor_plan'.width_m = floor_plan.width_m
       /\ floor_plan'.height_m = floor_plan.height_m
       /\ floor_plan'.grid_width = floor_plan.grid_width
       /\ floor_plan'.grid_height = floor_plan.grid_height
       /\ floor_plan'.resolution = floor_plan.resolution]_vars

\* the Bayesian filter has been updated and then reset, the particle filter has
\* gone through predict, reweight and resample, and the grid is the one built at
\* startup
C15_Witness ==
    /\ n_calls > 0 /\ call.op = "reset" /\ pf_steps > 0
    /\ floor_plan.grid = create_simple_floor_plan(10000, 10000, 100, 100, 100)

(***************************************************************************)
(* Further claims about the Bayesian filter                                *)
(***************************************************************************)
\* C16: after any sequence of update and reset calls the tunable parameters of
\* the Bayesian filter (sigma_stride, sigma_heading, sigma_motion,
\* floor_plan_weight, stride_length, n_history) and its floor-plan reference have
\* the values the constructor gave them.
C16_TunableParametersUnchanged ==
    /\ params.sigma_stride = sigma_stride
    /\ params.sigma_heading = sigma_heading
    /\ params.sigma_motion = sigma_motion
    /\ params.floor_plan_weight = floor_plan_weight
    /\ params.stride_length = STRIDE_LENGTH
    /\ params.n_history = n_history
    /\ params.floor_plan = FloorPlanPDF(DefaultRoom[1], DefaultRoom[2], DefaultRoom[3])

\* an update whose stride argument is not the filter's stride_length has returned,
\* after a reset and an earlier update
C16_Witness ==
    /\ UpdateReturned
    /\ call.stride = 7000
    /\ n_calls > 1
    /\ trajectory[1] # Pos(2000, 4000)
    /\ params.stride_length = 700

\* the walk so far is n0 strides of heading 0, then n1 strides of heading pi/2
Walked(n0, n1) ==
    walk = [i \in 1..(n0 + n1) |-> IF i <= n0 THEN "0" ELSE "pi/2"]

\* within 0.05 m of (x, y)
Near(pos, x, y) == SqDist(pos.x, pos.y, x, y) <= 50 * 50

TenthPoint(prev, P, i) ==
    Pos(prev.x + RoundDiv(i * (P.x - prev.x), 10), prev.y + RoundDiv(i * (P.y - prev.y), 10))

\* one of the ten points, i = 1..10, has floor-plan probability below 0.1
SomeTenthBelowThreshold(prev, P) ==
    \E i \in 1..10 :
        get_probability(floor_plan, TenthPoint(prev, P, i).x, TenthPoint(prev, P, i).y) < 10

\* C18: in an update that returned, with prev the estimate before it and P the
\* forward-projected point, the optimizer started at prev if one of the ten
\* sample points prev + (i/10)*(P - prev), i = 1..10, has floor-plan probability
\* below 0.1, and at P otherwise; so, P being another point than prev, it started
\* at prev if and only if one of the samples is below 0.1.
C18_WallCrossingGuard ==
    UpdateReturned
        => LET prev == PrevOfLastUpdate
               P == ImuPoint(prev, call.heading, call.stride)
           IN  /\ SomeTenthBelowThreshold(prev, P) => call.x0 = prev
               /\ ~SomeTenthBelowThreshold(prev, P) => call.x0 = P
               /\ P # prev => (call.x0 = prev <=> SomeTenthBelowThreshold(prev, P))

\* an update whose only sample below 0.1 is the last one, P itself
C18_Witness ==
    /\ UpdateReturned
    /\ LET prev == PrevOfLastUpdate
           P == ImuPoint(prev, call.heading, call.stride)
       IN  /\ P # prev
           /\ call.x0 = prev
           /\ get_probability(floor_plan, P.x, P.y) < 10
           /\ \A i \in 1..9 :
                 get_probability(floor_plan, TenthPoint(prev, P, i).x,
                                 TenthPoint(prev, P, i).y) >= 10

\* thread t assigns the estimate and the history of the Bayesian filter in this
\* step: the end of an update, a reset, or the construction of a new filter
BayesWrite(t) ==
    Executes(t, "bayes_commit") \/ Executes(t, "reset_bayes") \/ Executes(t, "ssp_bayes")

\* C19: an update call takes the Bayesian filter from idle to optimizing and back
\* to idle: while it optimizes, estimate and history stay as they are; when it
\* returns, it has committed exactly one new estimate and appended exactly one
\* entry to the history (dropping the oldest beyond ten), and the newest history
\* entry, the committed estimate and the value returned to the caller are equal;
\* a step that is not the end of an update or a reset changes neither the
\* estimate nor the history.
C19_IdleOptimizingIdle ==
    [][/\ \A t \in Threads :
             /\ Executes(t, "bayes")
                   => /\ pc'[t] = "bayes_commit"
                      /\ UNCHANGED <<current_estimate, position_history>>
             /\ (Executes(t, "bayes_commit") /\ frame[t].obj = params.id)
                   => LET appended == Append(position_history, current_estimate')
                          kept == Min(Len(appended), 10)
                      IN  /\ pc'[t] \in {"kalman_meas", "count"}
                          /\ current_estimate' = frame[t].result
                          /\ position_history' = LastN(appended, kept)
                          /\ position_history'[Len(position_history')] = current_estimate'
                          /\ positions'.bayesian = current_estimate'
                          /\ n_calls' = n_calls + 1
       /\ (\A t \in Threads : ~BayesWrite(t))
             => UNCHANGED <<current_estimate, position_history>>]_vars

\* a second update has just returned: the history holds both estimates, and the
\* newest is the committed one
C19_Witness ==
    /\ UpdateReturned
    /\ n_calls = 2
    /\ Len(position_history) = 2
    /\ position_history[2] = current_estimate
    /\ position_history[1] # current_estimate
    /\ positions.bayesian = current_estimate
    /\ \E t \in Threads : pc[t] = "kalman_meas"

(***************************************************************************)
(* Further claims about the particle filter (SpecParticle)                 *)
(***************************************************************************)
\* the weights before normalisation: each weight times the floor-plan probability
\* at its particle
RawWeights ==
    [i \in 1..n_particles |->
        RatMul(pf_call.prior[i],
               Rat(get_probability(floor_plan, pf_call.moved[i].x, pf_call.moved[i].y), 100))]

\* C20: in update_stride, the weights after the reweight step are the raw weights
\* divided by their total if the total is greater than zero and 1/N each if it is
\* not, no weight has a zero denominator, weights that are all zero are set to 1/N
\* each, and the reweight step moves no particle: without resampling the particles
\* are where predict left them, with resampling each is a copy of one of those.
C20_ReweightNeverDividesByZero ==
    /\ n_particles > 0
          => Normalize([i \in 1..n_particles |-> Rat(0, 1)], n_particles)
                = [i \in 1..n_particles |-> Rat(1, n_particles)]
    /\ pf_call.op = "update_stride"
          => LET total == RatSum(RawWeights)
             IN  /\ total.den > 0
                 /\ pf_call.reweighted
                       = IF total.num > 0
                         THEN [i \in 1..n_particles |-> RatDiv(RawWeights[i], total)]
                         ELSE [i \in 1..n_particles |-> Rat(1, n_particles)]
                 /\ \A i \in 1..n_particles : pf_call.reweighted[i].den > 0
                 /\ weights = pf_call.reweighted => particles = pf_call.moved
                 /\ \A i \in 1..n_particles :
                       \E j \in 1..n_particles : particles[i] = pf_call.moved[j]

\* an update_stride that began with unequal weights, moved one particle into a
\* wall and kept another on walkable floor
C20_Witness ==
    /\ pf_call.op = "update_stride"
    /\ \E i, j \in 1..n_particles : pf_call.prior[i] # pf_call.prior[j]
    /\ \E i, j \in 1..n_particles :
          /\ get_probability(floor_plan, pf_call.moved[i].x, pf_call.moved[i].y) = WALL_P
          /\ get_probability(floor_plan, pf_call.moved[j].x, pf_call.moved[j].y) = WALKABLE_P
    /\ weights = pf_call.reweighted

(***************************************************************************)
(* Claims about the malfunction detector (SpecDetector)                    *)
(***************************************************************************)
\* C25: check_high_temperature returns True only when every reading since the
\* start of the current excursion was above 80 C and the excursion has lasted
\* more than 10 seconds; a reading at or below 80 C clears the excursion start
\* and the alarm.
C25_AlarmOnlyAfterMoreThanTenSeconds ==
    /\ md_call.temperature.returned
          => /\ md_call.temperature.run_start # None
             /\ clock - md_call.temperature.run_start > ALARM_DURATION
    /\ (md_call.temperature.value # None /\ md_call.temperature.value <= HIGH_TEMP_THRESHOLD)
          => /\ detector.high_temp_start = None
             /\ ~detector.temp_alarm_active

\* C29: during one run of readings above the threshold each rule returns True at
\* most once and counts at most one alarm, and its alarm-active flag is set
\* exactly while a run that has raised its alarm is still in progress.
C29_OneAlarmPerExcursion ==
    /\ md_call.temperature.run_alarms <= 1
    /\ md_call.memory.run_alarms <= 1
    /\ detector.temp_alarms_triggered = md_call.temperature.alarms
    /\ detector.memory_alarms_triggered = md_call.memory.alarms
    /\ detector.temp_alarm_active
          <=> (md_call.temperature.run_start # None /\ md_call.temperature.run_alarms = 1)
    /\ detector.memory_alarm_active
          <=> (md_call.memory.run_start # None /\ md_call.memory.run_alarms = 1)

\* an excursion of each rule that raised its alarm and was checked again, more
\* than 10 seconds later still, after an earlier one that had raised its own
C29_Witness ==
    /\ md_call.temperature.run_alarms = 1
    /\ md_call.temperature.value > HIGH_TEMP_THRESHOLD
    /\ ~md_call.temperature.returned
    /\ clock - md_call.temperature.run_start >= 2 * ALARM_DURATION
    /\ md_call.memory.run_alarms = 1
    /\ md_call.memory.alarms = 2
    /\ md_call.memory.value > HIGH_MEMORY_THRESHOLD
    /\ ~md_call.memory.returned

(***************************************************************************)
(* Claims about the windowed subscriber (SpecWindow)                       *)
(***************************************************************************)
Buffers == {subscriber.cpu_usage_buffer, subscriber.memory_usage_buffer,
            subscriber.temperature_buffer, subscriber.load_avg_buffer}

\* C26: after on_message has handled a message, no buffer holds an entry stamped
\* earlier than the current time minus the window, whatever the order in which
\* the messages arrive.
C26_NoEntryOlderThanWindow ==
    \A buffer \in Buffers : \A i \in 1..Len(buffer) : buffer[i] >= clock - window_seconds

(***************************************************************************)
(* Claims about the joystick monitor thread (SpecJoystick)                 *)
(***************************************************************************)
\* C30: at most one joystick monitor thread is running at any time, for every
\* interleaving of start and stop requests.
C30_AtMostOneMonitorThread == Cardinality(Alive) <= 1

\* C28: after /api/reset and any sequence of stride requests, once every handler
\* has returned, the trajectory of each of the four algorithms has exactly
\* stride_count entries.
C28_TrajectoriesHaveStrideCountEntries ==
    (\A t \in Threads : pc[t] = "idle")
        => \A a \in Algorithms : trajectories[a] = stride_count

\* C27: whenever resample() resamples, the selection loop ends with the source
\* index j never above N - 1 (hence after at most N copies and N - 1 advances of
\* j), and each of the N new particles is a copy of a pre-resample particle
\* whose weight is positive.
C27_ResampleStaysInRange ==
    (pf_call.op = "update_stride" /\ pf_call.picked # <<>>)
        => /\ Len(pf_call.picked) = n_particles
           /\ \A k \in 1..Len(pf_call.picked) :
                 /\ pf_call.picked[k] \in 0..(n_particles - 1)
                 /\ pf_call.reweighted[pf_call.picked[k] + 1].num > 0
                 /\ particles[k] = pf_call.moved[pf_call.picked[k] + 1]

\* C21: resample() changes the particles and the weights only when the effective
\* sample size 1/sum(w^2) is strictly below N/2, and then the weights afterwards
\* are all 1/N; otherwise it leaves particles and weights as they were.
C21_ResampleOnlyBelowHalf ==
    pf_call.op = "update_stride"
        => IF LowEffectiveSampleSize(pf_call.reweighted, n_particles)
           THEN weights = [i \in 1..n_particles |-> Rat(1, n_particles)]
           ELSE particles = pf_call.moved /\ weights = pf_call.reweighted

\* C22: whatever success flag the optimizer reports, update commits the
\* optimizer's last iterate as the new estimate, appends it to the history and
\* returns it; update raises only for a NaN heading, never because the
\* optimizer did not converge, and never keeps the previous estimate instead.
BeforeLastUpdate == trajectory[Len(trajectory) - 1]

LastUpdateSucceeded ==
    success(floor_plan, BeforeLastUpdate, Pos(call.x, call.y), call.x0,
            BeforeLastUpdate.x, BeforeLastUpdate.y, call.heading, call.stride)

C22_LastIterateCommittedWhateverSuccess ==
    /\ UpdateReturned
          => /\ Len(trajectory) >= 2
             /\ Pos(call.x, call.y)
                    \in minimize(floor_plan, BeforeLastUpdate, call.x0, BeforeLastUpdate.x,
                                 BeforeLastUpdate.y, call.heading, call.stride)
             /\ current_estimate = Pos(call.x, call.y)
             /\ position_history # <<>>
             /\ position_history[Len(position_history)] = Pos(call.x, call.y)
             /\ trajectory[Len(trajectory)] = Pos(call.x, call.y)
    /\ (call.op = "update" /\ call.outcome # "returned") => call.heading = NaN

\* an update whose optimizer stopped short of the best point tried, and whose
\* result, not the previous estimate, is the estimate now
C22_Witness ==
    /\ UpdateReturned
    /\ ~LastUpdateSucceeded
    /\ current_estimate = Pos(call.x, call.y)
    /\ current_estimate # BeforeLastUpdate

\* C24: the log-posterior is finite for every candidate position: each of the
\* five terms is the logarithm of an argument of at least 1e-10, also when the
\* likelihood underflows to 0 and when the candidate lies outside the grid.
Candidates ==
    {[x |-> current_estimate.x + dx, y |-> current_estimate.y + dy] :
        dx \in OptOffsets \cup {7000, -7000}, dy \in OptOffsets \cup {7000}}

LogTerms(pos, heading, stride_length) ==
    <<FloorPlanTermUnweighted(get_probability(floor_plan, pos.x, pos.y)),
      LogPlusEps(p_stride_circle(pos.x, pos.y, current_estimate.x, current_estimate.y,
                                 stride_length)),
      LogPlusEps(p_sensor_likelihood(pos.x, pos.y, current_estimate.x, current_estimate.y,
                                     heading, stride_length)),
      LogPlusEps(p_motion_model(pos.x, pos.y)),
      LogPlusEps(p_previous_posterior(current_estimate, pos.x, pos.y))>>

C24_LogPosteriorFinite ==
    \A pos \in Candidates, heading \in Headings, stride_length \in {700, 7000} :
        LET terms == LogTerms(pos, heading, stride_length)
        IN  /\ \A k \in 1..5 : terms[k] >= LOG_EPS
            /\ posterior_probability(floor_plan, current_estimate, pos, current_estimate.x,
                                     current_estimate.y, heading, stride_length)
                  = floor_plan_weight * terms[1] + terms[2] + terms[3] + terms[4] + terms[5]

\* after an update, a candidate outside the grid and far enough from the stride
\* circle for exp() to return exactly 0: that term is log(1e-10)
C24_Witness ==
    /\ call.op = "update" /\ call.outcome = "returned"
    /\ \E pos \in Candidates :
          /\ ~InBox(floor_plan, pos)
          /\ get_probability(floor_plan, pos.x, pos.y) = WALL_P
          /\ p_stride_circle(pos.x, pos.y, current_estimate.x, current_estimate.y, 700)
                < -745200
          /\ LogTerms(pos, "0", 700)[2] = LOG_EPS

(***************************************************************************)
(* Claims about one update call, statement by statement (SpecStepFair)     *)
(***************************************************************************)
InUpdateCall == pc[Caller] \in {"scan", "minimize", "commit"}

====
